---- MODULE Spec2Model ----
(***************************************************************************)
(* A model of the novel-corpus cleaning scripts:                           *)
(*   novel_dataset_cleanSft.py  (NovelDatasetGenerator, "Sft" variant)     *)
(*   novel_dataset_cleanV2.py   (NovelDatasetGenerator, "V2" variant)      *)
(*   novel_dataset_cleanV3.py   (NovelStructurer, "V3" variant)            *)
(*   novel_dataset_clean.py     (NovelDialogueGenerator)                   *)
(*                                                                         *)
(* A text is a sequence of characters; a character is a short string that  *)
(* names it ("di" is the glyph of U+7B2C, "NL" the line feed, ...).        *)
(* Every operation of the scripts is an action that reads its arguments    *)
(* from the input variables and writes what it returns.                    *)
(***************************************************************************)
EXTENDS Integers, Sequences, FiniteSets, TLC

VARIABLES
    pc,           \* position of the driver: "call" before the operation, "done" after
    chinese_str,  \* argument of _chinese_to_number
    number,       \* what _chinese_to_number returned
    prompt,       \* argument of _build_dialogue_pair
    content,      \* argument of _build_dialogue_pair
    sample,       \* what _build_dialogue_pair returned
    text,         \* the text of the input file (or the text argument of an extractor)
    file_stem,    \* file_path.stem of the input file
    meta,         \* the record _process_single_file (V3) builds
    chapters,     \* what _split_chapters returned
    samples,      \* what the per-file pipeline returned
    theme,        \* what _extract_theme returned
    summary,      \* what _extract_summary returned
    raw_input,    \* argument of _process_content (raw_content)
    cleaned,      \* what _process_content returned
    elements,     \* argument of _process_chapter: what _generate_elements returned
    templates,    \* config['prompt_templates'] of NovelDialogueGenerator
    raised,       \* whether the call of _process_chapter raised
    printed,      \* the messages printed so far
    txt_files,    \* the files of the input folder, each by its text
    file_index,   \* how many files process_folder has handled
    returned,     \* what _process_single_file returned for each file handled
    all_samples   \* all_samples of process_folder

vars == <<pc, chinese_str, number, prompt, content, sample, text, file_stem,
          meta, chapters, samples, theme, summary, raw_input, cleaned,
          elements, templates, raised, printed, txt_files, file_index, returned,
          all_samples>>

\* The value of a variable an operation does not use.
Idle == <<>>

\* The variables of the operations that stand alone, and their being unused.
folder == <<txt_files, file_index, returned, all_samples>>
others == <<raw_input, cleaned, elements, templates, raised, printed, folder>>
FolderIdle ==
    txt_files = Idle /\ file_index = Idle /\ returned = Idle /\ all_samples = Idle
OthersIdle ==
    /\ raw_input = Idle /\ cleaned = Idle
    /\ elements = Idle /\ templates = Idle /\ raised = Idle /\ printed = Idle
    /\ FolderIdle

\* Python's None.
None == <<"None">>

\* The outcome of an expression that raises an exception.
Raised == <<"raise">>

\* None where a dict is returned otherwise (a record, as the dict is).
NoResult == [none |-> TRUE]

(***************************************************************************)
(* Characters                                                              *)
(***************************************************************************)
NL == "NL"          \* line feed
SP == " "           \* space
(***************************************************************************)
(* Sequence helpers (Python's str operations)                              *)
(***************************************************************************)
Min(a, b) == IF a < b THEN a ELSE b
Max(a, b) == IF a > b THEN a ELSE b

\* s[:k] of Python: the first k characters, or all but the last -k when k < 0.
SliceTo(s, k) ==
    IF k >= 0 THEN SubSeq(s, 1, Min(k, Len(s)))
    ELSE SubSeq(s, 1, Max(0, Len(s) + k))

\* s[k:] of Python for k >= 0.
SliceFrom(s, k) == SubSeq(s, Min(k, Len(s)) + 1, Len(s))

\* s[-k:] of Python for k > 0: the last k characters.
Tail_(s, k) == SubSeq(s, Max(0, Len(s) - k) + 1, Len(s))

\* n copies of the character c.
Fill(n, c) == [i \in 1..n |-> c]

RECURSIVE Concat(_)
\* ''.join(seqs): the two halves of the list, joined.
Concat(seqs) ==
    IF Len(seqs) = 0 THEN <<>>
    ELSE IF Len(seqs) = 1 THEN seqs[1]
    ELSE LET half == Len(seqs) \div 2 IN
         Concat(SubSeq(seqs, 1, half)) \o Concat(SubSeq(seqs, half + 1, Len(seqs)))

\* Characters str.strip() and \s take for white space: space, line feed, tab
\* and the ideographic space U+3000.
TAB == "TAB"
IDSP == "IDSP"
Whitespace == {SP, NL, TAB, IDSP}

RECURSIVE FirstNot(_, _, _)
\* The first index >= i of s whose character is outside C, or Len(s) + 1.
FirstNot(s, i, C) ==
    IF i > Len(s) \/ s[i] \notin C THEN i ELSE FirstNot(s, i + 1, C)

RECURSIVE LastNot(_, _, _)
\* The last index <= i of s whose character is outside C, or 0.
LastNot(s, i, C) ==
    IF i < 1 \/ s[i] \notin C THEN i ELSE LastNot(s, i - 1, C)

\* s.strip()
Strip(s) == SubSeq(s, FirstNot(s, 1, Whitespace), LastNot(s, Len(s), Whitespace))

\* The indices of s that hold a character of C.
Positions(s, C) == {i \in 1..Len(s) : s[i] \in C}

\* The least element of a set of integers, or d when it is empty.
MinOr(S, d) == IF S = {} THEN d ELSE CHOOSE x \in S : \A y \in S : x <= y

\* The greatest element of a set of integers, or d when it is empty.
MaxOr(S, d) == IF S = {} THEN d ELSE CHOOSE x \in S : \A y \in S : x >= y

\* The indices i of s, in increasing order, for which Test(i) holds.
Indices(s, Test(_)) == SelectSeq([i \in 1..Len(s) |-> i], Test)

\* Op(v), with v computed once however often Op reads its argument.
With(v, Op(_)) == CHOOSE r \in {Op(x) : x \in {v}} : TRUE

\* Whether the characters of lit stand in s from index i on.
LiteralAt(s, i, lit) ==
    /\ i >= 1
    /\ i + Len(lit) - 1 <= Len(s)
    /\ SubSeq(s, i, i + Len(lit) - 1) = lit

RECURSIVE RunLength(_, _, _)
\* The number of consecutive characters of C in s from index i on.
RunLength(s, i, C) ==
    IF i > Len(s) \/ s[i] \notin C THEN 0 ELSE 1 + RunLength(s, i + 1, C)

\* s.split(sep) for a one-character separator: the pieces between separators.
Split(s, sep) ==
    LET cuts == Indices(s, LAMBDA i : s[i] = sep)
        n == Len(cuts)
    IN  [k \in 1..(n + 1) |->
            SubSeq(s, (IF k = 1 THEN 1 ELSE cuts[k - 1] + 1),
                      (IF k = n + 1 THEN Len(s) ELSE cuts[k] - 1))]

\* s.split(): the maximal runs of characters that are not white space.
Words(s) ==
    LET starts == Indices(s, LAMBDA i : s[i] \notin Whitespace
                                         /\ (i = 1 \/ s[i - 1] \in Whitespace))
        ends == Indices(s, LAMBDA i : s[i] \notin Whitespace
                                       /\ (i = Len(s) \/ s[i + 1] \in Whitespace))
    IN  [k \in 1..Len(starts) |-> SubSeq(s, starts[k], ends[k])]

\* sep.join(seqs)
Join(seqs, sep) ==
    Concat([k \in 1..(2 * Len(seqs) - 1) |-> IF k % 2 = 1 THEN seqs[(k + 1) \div 2] ELSE sep])

(***************************************************************************)
(* _chinese_to_number (Sft 179-201, V2 140-162: the same code)             *)
(***************************************************************************)
num_map ==
    [ling |-> 0, yi |-> 1, er |-> 2, san |-> 3, si |-> 4, wu |-> 5,
     liu |-> 6, qi |-> 7, ba |-> 8, jiu |-> 9, shi |-> 10,
     bai |-> 100, qian |-> 1000, wan |-> 10000, yii |-> 100000000]

\* A mutant of NumStep: a magnitude with no digit before it counts as 0 times it.
NumStepNoImplicitOne(acc, char) ==
    IF char \notin DOMAIN num_map THEN acc
    ELSE LET value == num_map[char] IN
         IF value >= 10
         THEN [total |-> acc.total + acc.current * value, current |-> 0]
         ELSE [total |-> acc.total, current |-> acc.current * 10 + value]

\* A mutant of NumStep: a character outside num_map counts as the digit 0
\* (num_map.get(c, 0), as _normalize_chapter_title of V2 does).
NumStepUnknownAsZero(acc, char) ==
    LET value == IF char \in DOMAIN num_map THEN num_map[char] ELSE 0 IN
    IF value >= 10
    THEN [total |-> acc.total + (IF acc.current = 0 THEN 1 ELSE acc.current) * value,
          current |-> 0]
    ELSE [total |-> acc.total, current |-> acc.current * 10 + value]

\* One iteration of the loop over chinese_str: acc is (total, current).
NumStep(acc, char) ==
    IF char \notin DOMAIN num_map THEN acc
    ELSE LET value == num_map[char] IN
         IF value >= 10
         THEN [total |-> acc.total + (IF acc.current = 0 THEN 1 ELSE acc.current) * value,
               current |-> 0]
         ELSE [total |-> acc.total, current |-> acc.current * 10 + value]

RECURSIVE NumFold(_, _)
NumFold(acc, s) == IF s = <<>> THEN acc ELSE NumFold(NumStep(acc, Head(s)), Tail(s))

ChineseToNumber(s) ==
    LET acc == NumFold([total |-> 0, current |-> 0], s) IN acc.total + acc.current

\* The call of _chinese_to_number(chinese_str).
ChineseToNumberCall ==
    /\ pc = "call"
    /\ number' = ChineseToNumber(chinese_str)
    /\ pc' = "done"
    /\ UNCHANGED <<chinese_str, prompt, content, sample, text, file_stem,
                   meta, chapters, samples, theme, summary, others>>

(***************************************************************************)
(* The standard written form of an integer (the notation the numeral       *)
(* converter is meant to read): digit-unit pairs from the highest unit     *)
(* down, one "ling" for a run of inner zeros, and a bare "shi" for the     *)
(* tens of 10..19.                                                         *)
(***************************************************************************)
DigitGlyph(d) == <<"ling", "yi", "er", "san", "si", "wu", "liu", "qi", "ba", "jiu">>[d + 1]
UnitGlyph(p) == <<"shi", "bai", "qian", "wan">>[p]

RECURSIVE Pow10(_)
Pow10(p) == IF p = 0 THEN 1 ELSE 10 * Pow10(p - 1)

RECURSIVE StdFrom(_, _, _, _)
\* The glyphs of the digits of n at positions p..0; started: a higher digit
\* was written; zero: a run of zeros is waiting for its "ling".
StdFrom(n, p, started, zero) ==
    IF p < 0 THEN <<>>
    ELSE LET d == (n \div Pow10(p)) % 10 IN
         IF d = 0 THEN StdFrom(n, p - 1, started, started)
         ELSE (IF zero THEN <<"ling">> ELSE <<>>)
              \o (IF p = 1 /\ d = 1 /\ ~started THEN <<"shi">>
                  ELSE IF p = 0 THEN <<DigitGlyph(d)>>
                  ELSE <<DigitGlyph(d), UnitGlyph(p)>>)
              \o StdFrom(n, p - 1, TRUE, FALSE)

StdForm(n) == StdFrom(n, 4, FALSE, FALSE)

\* The largest integer whose written form is given to the converter.
MaxNumber == 9999
\* The longest arbitrary glyph sequence given to the converter.
MaxGlyphs == 4

\* A chapter header's numeral: "di" numeral "zhang".
Wrapped(numeral) == <<"di">> \o numeral \o <<"zhang">>

\* The characters of s that num_map knows.
Recognized(s) == SelectSeq(s, LAMBDA c : c \in DOMAIN num_map)

\* Inputs: the standard written form of every integer 1..MaxNumber, bare or
\* inside a chapter header.
InitNumeral ==
    /\ pc = "call"
    /\ \E n \in 1..MaxNumber : chinese_str \in {StdForm(n), Wrapped(StdForm(n))}
    /\ number = Idle
    /\ prompt = Idle /\ content = Idle /\ sample = Idle
    /\ text = Idle /\ file_stem = Idle /\ meta = Idle
    /\ chapters = Idle /\ samples = Idle /\ theme = Idle /\ summary = Idle
    /\ OthersIdle

NextNumeral == ChineseToNumberCall

SpecNumeral == InitNumeral /\ [][NextNumeral]_vars

\* Glyphs the arbitrary sequences are made of: digits, magnitudes and two
\* characters num_map does not know. Python's integers are unbounded; "yii"
\* (10^8) is left out so that every value stays within TLC's integers.
GlyphAlphabet == {"ling", "yi", "er", "jiu", "shi", "bai", "wan", "di", "zhang"}

RECURSIVE SeqsUpTo(_, _)
\* Every sequence over S of length at most n.
SeqsUpTo(S, n) ==
    IF n = 0 THEN {<<>>}
    ELSE LET shorter == SeqsUpTo(S, n - 1) IN
         shorter \cup {Append(s, c) : s \in {t \in shorter : Len(t) = n - 1}, c \in S}

InitGlyphs ==
    /\ pc = "call"
    /\ chinese_str \in SeqsUpTo(GlyphAlphabet, MaxGlyphs)
    /\ number = Idle
    /\ prompt = Idle /\ content = Idle /\ sample = Idle
    /\ text = Idle /\ file_stem = Idle /\ meta = Idle
    /\ chapters = Idle /\ samples = Idle /\ theme = Idle /\ summary = Idle
    /\ OthersIdle

NextGlyphs == ChineseToNumberCall

SpecGlyphs == InitGlyphs /\ [][NextGlyphs]_vars

\* C2: for the standard written form of an integer n in 1..MaxNumber, bare or
\* wrapped in a chapter header's "di" ... "zhang", _chinese_to_number returns
\* n: the input's numeral is the standard form of the number returned. A
\* leading "shi" with no digit before it counts as 1*10.
C2_StandardNumeralValue ==
    pc = "done" =>
        /\ number \in 1..MaxNumber
        /\ Recognized(chinese_str) = StdForm(number)

\* C2 witness: "shi er" (a leading shi) was converted, to 12.
C2_Witness ==
    pc = "done" /\ chinese_str = <<"shi", "er">> /\ number = 12

\* C3: _chinese_to_number returns an integer for every character sequence;
\* characters outside num_map are skipped, so the result is the result on the
\* sequence without them, and 0 when none is left.
C3_UnrecognizedSkipped ==
    pc = "done" =>
        /\ number \in Nat
        /\ number = ChineseToNumber(Recognized(chinese_str))
        /\ (Recognized(chinese_str) = <<>> => number = 0)

\* C3 witness: an unknown character between two digits was skipped.
C3_Witness ==
    pc = "done" /\ chinese_str = <<"yi", "di", "er">> /\ number = 12

(***************************************************************************)
(* _build_dialogue_pair (Sft 48-64)                                        *)
(***************************************************************************)
max_sequence_length == 3000

TagOpen == <<"<", "s", ">">>             \* "<s>"
TagClose == <<"<", "/", "s", ">">>       \* "</s>"
Dots == <<".", ".", ".">>                \* "..."

\* The sample built from a prompt and a response text.
BuildDialoguePair(p, c) ==
    LET formatted_prompt == TagOpen \o p \o TagClose
        formatted_content == TagOpen \o c \o TagClose
        total_len == Len(formatted_prompt) + Len(formatted_content)
        available_len == max_sequence_length - Len(formatted_prompt) - 10
    IN  <<[role |-> "user", content |-> formatted_prompt],
          [role |-> "assistant",
           content |-> IF total_len > max_sequence_length
                       THEN TagOpen \o SliceTo(c, available_len) \o Dots \o TagClose
                       ELSE formatted_content]>>

\* The call of _build_dialogue_pair(prompt, content).
BuildDialoguePairCall ==
    /\ pc = "call"
    /\ sample' = BuildDialoguePair(prompt, content)
    /\ pc' = "done"
    /\ UNCHANGED <<chinese_str, number, prompt, content, text, file_stem,
                   meta, chapters, samples, theme, summary, others>>

\* How far around the length limit (and above 0) the argument lengths range.
LengthSlack == 6

\* A string of n characters whose first and last characters are told apart.
Body(n, c) == [i \in 1..n |-> IF i = 1 THEN "a" ELSE IF i = n THEN "z" ELSE c]

\* Lengths 0..LengthSlack and the lengths within LengthSlack of m.
LengthsAround(m) == (0..LengthSlack) \cup ((m - LengthSlack)..(m + LengthSlack))

\* Inputs: prompts and contents that are short, or near the lengths at which
\* the formatted prompt alone reaches max_sequence_length - 10.
InitPair ==
    /\ pc = "call"
    /\ \E n \in LengthsAround(max_sequence_length - 17) : prompt = Body(n, "p")
    /\ \E n \in LengthsAround(max_sequence_length - 7) : content = Body(n, "c")
    /\ sample = Idle
    /\ chinese_str = Idle /\ number = Idle
    /\ text = Idle /\ file_stem = Idle /\ meta = Idle
    /\ chapters = Idle /\ samples = Idle /\ theme = Idle /\ summary = Idle
    /\ OthersIdle

NextPair == BuildDialoguePairCall

SpecPair == InitPair /\ [][NextPair]_vars

\* C1: for every sample of _build_dialogue_pair, whatever the lengths of
\* prompt and content, the formatted prompt and formatted response together
\* are at most max_sequence_length long, the prompt is emitted in full, and
\* the response is the whole content or a head of it followed by "...".
C1_SampleLengthBound ==
    pc = "done" =>
        /\ Len(sample[1].content) + Len(sample[2].content) <= max_sequence_length
        /\ sample[1].content = TagOpen \o prompt \o TagClose
        /\ \/ sample[2].content = TagOpen \o content \o TagClose
           \/ \E k \in 0..Len(content) :
                 sample[2].content = TagOpen \o SubSeq(content, 1, k) \o Dots \o TagClose

(***************************************************************************)
(* _extract_summary (Sft 77-89)                                            *)
(***************************************************************************)
chapter_summary_length == 100

\* Sentence punctuation: U+3002, U+FF01, U+FF1F, U+2026.
JUHAO == "juhao"
TANHAO == "tanhao"
WENHAO == "wenhao"
SHENGLUE == "shenglue"
SentenceEnd == {JUHAO, TANHAO, WENHAO, SHENGLUE}

\* The characters re.sub removes before the sentences are cut: the
\* ideographic space, the brackets and quotes, and U+2026.
SummaryRemoved ==
    {IDSP, "lfang", "rfang", "lkuo", "rkuo", "lshu", "rshu",
     "ldquo", "rdquo", "lsquo", "rsquo", SHENGLUE}

\* clean_text
CleanForSummary(t) == SelectSeq(Strip(t), LAMBDA c : c \notin SummaryRemoved)

\* re.findall(r'[^...]+[...]?', clean): each maximal run of characters that
\* end no sentence, with the one sentence end that follows it, if any.
Sentences(clean) ==
    LET ends == Positions(clean, SentenceEnd)
        starts == Indices(clean, LAMBDA i : clean[i] \notin SentenceEnd
                                             /\ (i = 1 \/ clean[i - 1] \in SentenceEnd))
    IN  [k \in 1..Len(starts) |->
            SubSeq(clean, starts[k],
                   MinOr({e \in ends : e > starts[k]}, Len(clean)))]

\* A mutant of SummaryTake: the last sentence taken is cut at the cap instead
\* of being left out (the summary is filled up to the cap).
RECURSIVE SummaryTakeCutting(_, _, _)
SummaryTakeCutting(sentences, i, total_len) ==
    IF i > Len(sentences) THEN <<>>
    ELSE IF total_len + Len(sentences[i]) > chapter_summary_length
         THEN <<SubSeq(sentences[i], 1, chapter_summary_length - total_len)>>
    ELSE <<sentences[i]>>
         \o SummaryTakeCutting(sentences, i + 1, total_len + Len(sentences[i]))

RECURSIVE SummaryTake(_, _, _)
\* The loop over sentences from the i-th on: the list `summary`.
SummaryTake(sentences, i, total_len) ==
    IF i > Len(sentences) THEN <<>>
    ELSE IF total_len + Len(sentences[i]) > chapter_summary_length THEN <<>>
    ELSE <<sentences[i]>>
         \o SummaryTake(sentences, i + 1, total_len + Len(sentences[i]))

ExtractSummary(t) ==
    LET sentences == Sentences(CleanForSummary(t))
        taken == SummaryTake(sentences, 1, 0)
    IN  Concat(taken) \o (IF Len(taken) < Len(sentences) THEN Dots ELSE <<>>)

\* The call of _extract_summary(text).
ExtractSummaryCall ==
    /\ pc = "call"
    /\ summary' = ExtractSummary(text)
    /\ pc' = "done"
    /\ UNCHANGED <<chinese_str, number, prompt, content, sample, text, file_stem,
                   meta, chapters, samples, theme, others>>

\* The most pieces a summary input is made of.
MaxSummaryPieces == 3

\* The pieces of the summary inputs: sentences of several lengths (one longer
\* than the cap), a sentence without its end, a stray sentence end, removed
\* characters and white space.
SummaryPieces ==
    { Fill(1, "a") \o <<JUHAO>>,
      Fill(49, "b") \o <<TANHAO>>,
      Fill(50, "c") \o <<WENHAO>>,
      Fill(chapter_summary_length, "d") \o <<JUHAO>>,
      Fill(3, "e"),
      <<JUHAO>>,
      <<"lshu", "f", "rshu", SHENGLUE>>,
      <<SP>> }

InitSummary ==
    /\ pc = "call"
    /\ \E pieces \in SeqsUpTo(SummaryPieces, MaxSummaryPieces) : text = Concat(pieces)
    /\ summary = Idle
    /\ chinese_str = Idle /\ number = Idle
    /\ prompt = Idle /\ content = Idle /\ sample = Idle
    /\ file_stem = Idle /\ meta = Idle
    /\ chapters = Idle /\ samples = Idle /\ theme = Idle
    /\ OthersIdle

NextSummary == ExtractSummaryCall

SpecSummary == InitSummary /\ [][NextSummary]_vars

\* C10: the summary is the concatenation of the first m whole sentences of
\* the cleaned text, for some m, no longer than chapter_summary_length in
\* all, followed by the ellipsis marker exactly when m is less than the
\* number of sentences; no sentence is cut.
C10_WholeSentences ==
    pc = "done" =>
        LET sentences == Sentences(CleanForSummary(text)) IN
        \E m \in 0..Len(sentences) :
            LET body == Concat(SubSeq(sentences, 1, m)) IN
            /\ Len(body) <= chapter_summary_length
            /\ summary = body \o (IF m < Len(sentences) THEN Dots ELSE <<>>)

\* C10 witness: two sentences were taken whole and a third, which did not
\* fit, was left out and marked by the ellipsis.
C10_Witness ==
    /\ pc = "done"
    /\ text = Fill(49, "b") \o <<TANHAO>> \o Fill(1, "a") \o <<JUHAO>> \o Fill(50, "c") \o <<WENHAO>>
    /\ summary = Fill(49, "b") \o <<TANHAO>> \o Fill(1, "a") \o <<JUHAO>> \o Dots

\* C11: when the cleaned text is longer than chapter_summary_length and no
\* sentence end occurs within its first chapter_summary_length characters,
\* the summary is those first chapter_summary_length characters followed by
\* the ellipsis marker.
C11_TruncatedAtCap ==
    pc = "done" =>
        LET clean == CleanForSummary(text)
            head == SubSeq(clean, 1, chapter_summary_length)
        IN  (/\ Len(clean) > chapter_summary_length
             /\ \A i \in 1..chapter_summary_length : head[i] \notin SentenceEnd)
                => summary = head \o Dots

(***************************************************************************)
(* textwrap.shorten(text, width, placeholder='...') as _extract_theme and  *)
(* _generate_content_prompts use it. The texts hold no hyphen, so a chunk  *)
(* of the wrapper is a word or the single space between two words.         *)
(***************************************************************************)
\* The chunks of ' '.join(text.split()): the words with one space between.
Chunks(words) ==
    [k \in 1..(2 * Len(words) - 1) |-> IF k % 2 = 1 THEN words[(k + 1) \div 2] ELSE <<SP>>]

\* How many chunks, from the first on, fit on a line of the width.
TakeChunks(chunks, width) ==
    MaxOr({k \in 0..Len(chunks) : Len(Concat(SubSeq(chunks, 1, k))) <= width}, 0)

\* The line with chunks dropped from its end until the last one is a word
\* and the placeholder fits after it; <<>> when nothing is left.
DropForPlaceholder(cur_line, width) ==
    SubSeq(cur_line, 1,
           MaxOr({k \in 1..Len(cur_line) :
                     /\ Strip(cur_line[k]) # <<>>
                     /\ Len(Concat(SubSeq(cur_line, 1, k))) + Len(Dots) <= width}, 0))

Shorten(t, width) ==
    LET chunks == Chunks(Words(t))
        k == TakeChunks(chunks, width)
        taken == SubSeq(chunks, 1, k)
        cur_len == Len(Concat(taken))
        \* _handle_long_word: a chunk longer than the width is cut to fill the line
        filled == IF k < Len(chunks) /\ Len(chunks[k + 1]) > width
                  THEN Append(taken, SubSeq(chunks[k + 1], 1, width - cur_len))
                  ELSE taken
        \* drop_whitespace: a line does not end with white space
        cur_line == IF filled # <<>> /\ Strip(filled[Len(filled)]) = <<>>
                    THEN SubSeq(filled, 1, Len(filled) - 1)
                    ELSE filled
    IN  IF k = Len(chunks) THEN Concat(chunks)
        ELSE Concat(DropForPlaceholder(cur_line, width)) \o Dots

(***************************************************************************)
(* _fallback_theme_extract (Sft 138-155, V2 223-240: the same code)        *)
(***************************************************************************)
theme_width == 500
fallback_paragraphs == 5

\* What the loop over the lines collects: a paragraph is a run of lines
\* that are not blank, and it is closed only by the blank line after it (the
\* lines after the last blank line are never added); the loop leaves at a
\* blank line once fallback_paragraphs paragraphs are collected.
FallbackParagraphs(lines) ==
    LET stripped == [k \in 1..Len(lines) |-> Strip(lines[k])]
        closes == Indices(stripped, LAMBDA k : stripped[k] = <<>> /\ k > 1
                                                /\ stripped[k - 1] # <<>>)
        FirstLine(b) == 1 + MaxOr({k \in 1..(b - 1) : stripped[k] = <<>>}, 0)
    IN  [j \in 1..Min(Len(closes), fallback_paragraphs) |->
            Join(SubSeq(stripped, FirstLine(closes[j]), closes[j] - 1), <<SP>>)]

FallbackThemeExtract(t) ==
    LET paragraphs == FallbackParagraphs(Split(t, NL)) IN
    Shorten(Join(SubSeq(paragraphs, 1, Min(fallback_paragraphs, Len(paragraphs))), <<SP>>),
            theme_width)

(***************************************************************************)
(* _extract_theme (Sft 114-137, V2 199-222: the same code)                 *)
(***************************************************************************)
\* The two section headers, U+5185 U+5BB9 U+7B80 U+4ECB and
\* U+4F5C U+54C1 U+5927 U+7EB2, and the colons U+FF1A and ":".
ThemeHeaders == {<<"nei", "rong", "jian", "jie4">>, <<"zuo", "pin", "da", "gang">>}
Colons == {"fcolon", ":"}
AsciiDigits == {"0", "1", "2", "3", "4", "5", "6", "7", "8", "9"}
\* [\d...] of the volume header: decimal digits and the numeral glyphs.
VolumeNumerals ==
    AsciiDigits \cup {"yi", "er", "san", "si", "wu", "liu", "qi", "ba", "jiu",
                      "shi", "bai", "qian", "wan", "ling"}

\* re.sub(r'\n{3,}', '\n\n', t): of a run of line feeds the first two stay.
CollapseBlankLines(t) ==
    LET kept == Indices(t, LAMBDA i : ~(i >= 3 /\ t[i] = NL /\ t[i - 1] = NL /\ t[i - 2] = NL))
    IN  [k \in 1..Len(kept) |-> t[kept[k]]]

\* What may follow the blank lines that end a theme, at index r of t.
ThemeBoundaryAt(t, r) ==
    \/ /\ r <= Len(t) /\ t[r] = "di"
       /\ LET m == RunLength(t, r + 1, VolumeNumerals) IN
          m >= 1 /\ r + m + 1 <= Len(t) /\ t[r + m + 1] \in {"juan", "bu"}
    \/ /\ r <= Len(t) /\ t[r] = "di"
       /\ \E m \in 1..20 :
             /\ r + m + 1 <= Len(t)
             /\ \A j \in (r + 1)..(r + m) : t[j] # NL
             /\ t[r + m + 1] = "zhang"
    \/ /\ LiteralAt(t, r, <<"zheng", "wen">>)
       /\ LiteralAt(t, r + 2 + RunLength(t, r + 2, Whitespace), <<"kai", "shi3">>)
    \/ RunLength(t, r, {"-", "="}) >= 4
    \/ r = Len(t) + 1
    \/ (r <= Len(t) /\ t[r] = NL)

\* The lookahead (?=\n{2,}(...)) at index q of t.
ThemeLookahead(t, q) ==
    \E k \in 2..RunLength(t, q, {NL}) : ThemeBoundaryAt(t, q + k)

\* The group a match of theme_pattern that starts at index i captures, or
\* None: \n* takes as many line feeds as leave a match, and the group is the
\* shortest that the lookahead follows.
ThemeGroupAt(t, i) ==
    IF ~(\E h \in ThemeHeaders : LiteralAt(t, i, h)) \/ i + 4 > Len(t) \/ t[i + 4] \notin Colons
    THEN None
    ELSE LET b == i + 5
             ok == {n \in 0..RunLength(t, b, {NL}) :
                       \E q \in (b + n + 1)..(Len(t) + 1) : ThemeLookahead(t, q)}
         IN  IF ok = {} THEN None
             ELSE LET n == MaxOr(ok, 0)
                      q == MinOr({x \in (b + n + 1)..(Len(t) + 1) : ThemeLookahead(t, x)}, 0)
                  IN  SubSeq(t, b + n, q - 1)

\* theme_pattern.search(t).group(1), or None when nothing matches.
ThemeSearch(t) ==
    LET starts == Indices(t, LAMBDA i : ThemeGroupAt(t, i) # None) IN
    IF starts = <<>> THEN None ELSE ThemeGroupAt(t, starts[1])

\* The index after a match of r'\(' di '[^\n]+' zhang '\)' that starts at
\* index i of t, or 0: the greedy [^\n]+ ends at the last "zhang )" of the line.
ChapterRefEnd(t, i) ==
    IF ~LiteralAt(t, i, <<"(", "di">>) THEN 0
    ELSE LET line_end == MinOr({j \in i..Len(t) : t[j] = NL}, Len(t) + 1)
             closes == {e \in (i + 3)..(line_end - 2) : t[e] = "zhang" /\ t[e + 1] = ")"}
         IN  IF closes = {} THEN 0 ELSE MaxOr(closes, 0) + 2

RECURSIVE RemoveChapterRefs(_, _)
\* re.sub(r'\(' di '[^\n]+' zhang '\)', '', t) from index i on.
RemoveChapterRefs(t, i) ==
    LET found == {j \in i..Len(t) : ChapterRefEnd(t, j) # 0} IN
    IF found = {} THEN SubSeq(t, i, Len(t))
    ELSE LET j == MinOr(found, 0) IN
         SubSeq(t, i, j - 1) \o RemoveChapterRefs(t, ChapterRefEnd(t, j))

\* The note before a trailer: U+8BF7 U+770B U+7247 U+82B1 U+FF1A and a line feed.
TrailerNote == <<"qing", "kan", "pian", "hua", "fcolon", NL>>

RECURSIVE RemoveTrailerNotes(_, _)
\* re.sub of the literal TrailerNote by '' from index i on.
RemoveTrailerNotes(t, i) ==
    LET found == {j \in i..Len(t) : LiteralAt(t, j, TrailerNote)} IN
    IF found = {} THEN SubSeq(t, i, Len(t))
    ELSE LET j == MinOr(found, 0) IN
         SubSeq(t, i, j - 1) \o RemoveTrailerNotes(t, j + Len(TrailerNote))

ExtractTheme(t) ==
    LET clean_text == CollapseBlankLines(t)
        group == ThemeSearch(clean_text)
    IN  IF group = None THEN FallbackThemeExtract(clean_text)
        ELSE Shorten(RemoveTrailerNotes(RemoveChapterRefs(Strip(group), 1), 1), theme_width)

\* The call of _extract_theme(text).
ExtractThemeCall ==
    /\ pc = "call"
    /\ theme' = ExtractTheme(text)
    /\ pc' = "done"
    /\ UNCHANGED <<chinese_str, number, prompt, content, sample, text, file_stem,
                   meta, chapters, samples, summary, others>>

\* The most pieces a theme input is made of.
MaxThemePieces == 3

\* The pieces of the theme inputs: short and long lines (one longer than the
\* theme width), line feeds, a space, a section header and a chapter header.
ThemePieces ==
    { <<"a", "b", "c">>,
      <<NL>>,
      <<SP>>,
      Fill(300, "x"),
      Fill(theme_width + 1, "y"),
      <<"nei", "rong", "jian", "jie4", "fcolon">>,
      <<NL, NL, "di", "yi", "zhang", SP, "t">> }

InitTheme ==
    /\ pc = "call"
    /\ \E pieces \in SeqsUpTo(ThemePieces, MaxThemePieces) : text = Concat(pieces)
    /\ theme = Idle
    /\ chinese_str = Idle /\ number = Idle
    /\ prompt = Idle /\ content = Idle /\ sample = Idle
    /\ file_stem = Idle /\ meta = Idle
    /\ chapters = Idle /\ samples = Idle /\ summary = Idle
    /\ OthersIdle

NextTheme == ExtractThemeCall

SpecTheme == InitTheme /\ [][NextTheme]_vars

\* Whether t holds a section header of the theme: the header words and a colon.
HasThemeHeader(t) ==
    \E i \in 1..Len(t) :
        (\E h \in ThemeHeaders : LiteralAt(t, i, h)) /\ i + 4 <= Len(t) /\ t[i + 4] \in Colons

\* Whether some line of t holds a character that is not white space.
HasNonBlankLine(t) == \E i \in 1..Len(t) : t[i] \notin Whitespace

\* C8: for a document with no section header and at least one non-blank
\* line, the theme is the fallback extraction (the first paragraphs), is not
\* empty and is at most theme_width characters long.
C8_FallbackThemeNonEmpty ==
    (pc = "done" /\ ~HasThemeHeader(text) /\ HasNonBlankLine(text)) =>
        /\ theme = FallbackThemeExtract(CollapseBlankLines(text))
        /\ theme # <<>>
        /\ Len(theme) <= theme_width

(***************************************************************************)
(* NovelStructurer (V3): _process_content and _process_single_file         *)
(***************************************************************************)
min_chapter_length == 200

\* self.genre, the name of the input directory.
genre == <<"g", "e", "n", "r", "e">>

\* The characters of [\x00-\x1F\x7F] the texts hold: line feed, tab, bell, delete.
ControlChars == {NL, TAB, "BEL", "DEL"}
BOM == "BOM"                              \* U+FEFF

\* A mutant of ProcessContent: the ends are stripped before the control
\* characters are removed, and not after.
ProcessContentStripFirst(raw_content) ==
    SelectSeq(Strip(raw_content), LAMBDA c : c \notin ControlChars)

\* _process_content(raw_content)
ProcessContent(raw_content) ==
    LET no_control == SelectSeq(raw_content, LAMBDA c : c \notin ControlChars)
        collapsed == CollapseBlankLines(no_control)
        lines == Split(collapsed, NL)
        stripped == [k \in 1..Len(lines) |-> Strip(lines[k])]
    IN  Strip(Join(stripped, <<NL>>))

\* The index of the first line feed of t at or after index i, or Len(t) + 1.
LineEnd(t, i) == MinOr({j \in i..Len(t) : t[j] = NL}, Len(t) + 1)

\* What one alternative of title_pattern captures at the start of t, or
\* None: the opening bracket, the fewest characters (one at least, none a
\* line feed) and the closing bracket.
TitleCapture(t, open, close) ==
    IF t = <<>> \/ t[1] # open THEN None
    ELSE LET closes == {k \in 3..(LineEnd(t, 1) - 1) : t[k] = close} IN
         IF closes = {} THEN None ELSE SubSeq(t, 2, MinOr(closes, 0) - 1)

\* re.search(title_pattern, t): whether it matched, and the groups of the
\* match; the group of the alternative that did not match is None.
TitleSearch(t) ==
    LET g1 == TitleCapture(t, "lshu", "rshu")
        g2 == TitleCapture(t, "lfang", "rfang")
    IN  IF g1 # None THEN [matched |-> TRUE, group1 |-> g1, group2 |-> None]
        ELSE [matched |-> g2 # None, group1 |-> None, group2 |-> g2]

\* The sentinel author, U+672A U+77E5.
UnknownAuthor == <<"wei", "zhi">>

\* What author_pattern captures when it matches from index i of t, or None:
\* the marker, a colon, white space (as much as leaves a character of the
\* line to capture) and the rest of the line.
AuthorGroupAt(t, i) ==
    IF ~LiteralAt(t, i, <<"zuo", "zhe">>) \/ i + 2 > Len(t) \/ t[i + 2] \notin Colons
    THEN None
    ELSE LET b == i + 3
             ok == {n \in 0..RunLength(t, b, Whitespace) : b + n <= Len(t) /\ t[b + n] # NL}
         IN  IF ok = {} THEN None
             ELSE LET n == MaxOr(ok, 0) IN SubSeq(t, b + n, LineEnd(t, b + n) - 1)

\* re.search(author_pattern, t).group(1), or None.
AuthorSearch(t) ==
    LET starts == Indices(t, LAMBDA i : AuthorGroupAt(t, i) # None) IN
    IF starts = <<>> THEN None ELSE AuthorGroupAt(t, starts[1])

\* Whether outline_start matches at index i of t.
OutlineStartAt(t, i) ==
    /\ \E h \in ThemeHeaders : LiteralAt(t, i, h)
    /\ i + 4 <= Len(t)
    /\ t[i + 4] \in Colons \cup {NL}

\* The outline of the meta record: "" without a header; the stripped text
\* from the first header that something follows up to the first blank line
\* or the end; Raised when no header is followed by anything (the second
\* search returns None and .group raises AttributeError).
Outline(t) ==
    LET starts == Indices(t, LAMBDA i : OutlineStartAt(t, i))
        followed == SelectSeq(starts, LAMBDA i : i + 5 <= Len(t))
    IN  IF starts = <<>> THEN <<>>
        ELSE IF followed = <<>> THEN Raised
        ELSE LET b == followed[1] + 5
                 q == MinOr({x \in (b + 1)..(Len(t) + 1) :
                               \/ x = Len(t) + 1
                               \/ (x = Len(t) /\ t[x] = NL)
                               \/ (x < Len(t) /\ t[x] = NL /\ t[x + 1] = NL)}, 0)
             IN  Strip(SubSeq(t, b, q - 1))

\* [0-9...] of chapter_pattern: digits and numeral glyphs.
ChapterNumerals == VolumeNumerals

\* Whether a header of chapter_pattern starts at index h of t: "di", one or
\* more numerals, and "zhang" or "hui".
HeaderAt(t, h) ==
    /\ h <= Len(t) /\ t[h] = "di"
    /\ LET m == RunLength(t, h + 1, ChapterNumerals) IN
       m >= 1 /\ h + m + 1 <= Len(t) /\ t[h + m + 1] \in {"zhang", "hui"}

RECURSIVE ChapterScan(_, _, _)
\* re.finditer(chapter_pattern, t) from offset pos on (offsets count from 0
\* as Python's): a match takes the line feed before the header, or starts
\* the text, and takes the header's line with the line feed that ends it.
ChapterScan(t, heads, pos) ==
    LET next == {h \in heads : (h = 1 /\ pos = 0) \/ (h >= 2 /\ h - 2 >= pos /\ t[h - 1] = NL)} IN
    IF next = {} THEN <<>>
    ELSE LET h == MinOr(next, 0)
             e == LineEnd(t, h)
             match == [start |-> IF h = 1 THEN 0 ELSE h - 2,
                       end |-> Min(e, Len(t)),
                       group1 |-> SubSeq(t, h, e - 1)]
         IN  <<match>> \o ChapterScan(t, heads, match.end)

ChapterMatches(t) == ChapterScan(t, {h \in 1..Len(t) : HeaderAt(t, h)}, 0)

\* text[a:b] of Python for offsets 0 <= a, b <= len(text).
Slice(t, a, b) == SubSeq(t, a + 1, b)

\* A mutant of KeepChapter: every chapter is kept, whatever its length.
KeepChapterAlways(processed_content) == TRUE

\* Whether a span's processed content is long enough to become a chapter.
KeepChapter(processed_content) == Len(processed_content) >= min_chapter_length

\* The preface chapter, if the text before the first match makes one.
PrefaceChapters(t, chapter_matches) ==
    IF chapter_matches # <<>> /\ chapter_matches[1].start > 0
    THEN LET preface == ProcessContent(Slice(t, 0, chapter_matches[1].start)) IN
         IF KeepChapter(preface)
         THEN <<[chapter_number |-> 0, chapter_title |-> <<"qian2", "yan">>, content |-> preface]>>
         ELSE <<>>
    ELSE <<>>

RECURSIVE ChapterLoop(_, _, _, _)
\* The loop over chapter_matches from the i-th on; chs is the list so far.
ChapterLoop(t, chapter_matches, i, chs) ==
    IF i > Len(chapter_matches) THEN chs
    ELSE LET match == chapter_matches[i]
             end_pos == IF i + 1 <= Len(chapter_matches)
                        THEN chapter_matches[i + 1].start ELSE Len(t)
             processed_content == ProcessContent(Slice(t, match.end, end_pos))
         IN  IF ~KeepChapter(processed_content)
             THEN ChapterLoop(t, chapter_matches, i + 1, chs)
             ELSE ChapterLoop(t, chapter_matches, i + 1,
                     Append(chs, [chapter_number |-> Len(chs) + 1,
                                  chapter_title |-> Strip(match.group1),
                                  content |-> processed_content]))

\* The chapters of the structured output.
StructureChapters(t) ==
    LET chapter_matches == ChapterMatches(t)
        chs == ChapterLoop(t, chapter_matches, 1, PrefaceChapters(t, chapter_matches))
        full_content == ProcessContent(t)
    IN  IF chs # <<>> THEN chs
        ELSE IF KeepChapter(full_content)
        THEN <<[chapter_number |-> 1, chapter_title |-> <<"quan", "wen">>, content |-> full_content]>>
        ELSE <<>>

\* f.read().replace(BOM, '')
ReadText(file_text) == SelectSeq(file_text, LAMBDA c : c # BOM)

\* What _process_single_file returns for a file of this content and stem:
\* the meta record, or None when building it raised.
StructureFile(file_text, stem) ==
    LET t == ReadText(file_text)
        title_match == TitleSearch(t)
        author_group == AuthorSearch(t)
    IN  IF Outline(t) = Raised THEN NoResult
        ELSE [genre |-> genre,
              title |-> IF title_match.matched THEN title_match.group1 ELSE stem,
              author |-> IF author_group # None THEN author_group ELSE UnknownAuthor,
              outline |-> Outline(t),
              chapters |-> StructureChapters(t)]

\* The call of NovelStructurer._process_single_file on the input file.
StructureFileCall ==
    /\ pc = "call"
    /\ meta' = StructureFile(text, file_stem)
    /\ pc' = "done"
    /\ UNCHANGED <<chinese_str, number, prompt, content, sample, text, file_stem,
                   chapters, samples, theme, summary, others>>

\* The most chapters (a header and its body) an input file is made of.
MaxChapters == 2

\* What an input file starts with: nothing; a title in the first kind of
\* brackets and an author line; a title in the second kind of brackets; a
\* byte order mark, a title and an outline; a line that is none of these.
FileFronts ==
    { <<>>,
      <<"lshu", "a", "b", "rshu", NL, "zuo", "zhe", "fcolon", "c", "d", NL>>,
      <<"lfang", "a", "b", "rfang", NL>>,
      <<BOM, "lshu", "a", "b", "rshu", "nei", "rong", "jian", "jie4", "fcolon", "e", "f", NL, NL>>,
      <<"a", "b", NL>> }

\* The text before the first header: none, too short, long enough.
FilePrefaces ==
    { <<>>, Fill(min_chapter_length - 50, "u") \o <<NL>>, Fill(min_chapter_length, "v") \o <<NL>> }

\* Chapter headers: numeral 1 with a title fragment, numeral 12 without.
FileHeaders ==
    { <<"di", "yi", "zhang", SP, "t", NL>>,
      <<"di", "shi", "er", "zhang", NL>> }

\* Chapter bodies: none (the next header follows at once); too short; long
\* enough, with a blank line after it; longer than the minimum only by the
\* control characters that normalization removes.
FileBodies ==
    { <<>>,
      Fill(min_chapter_length - 50, "q") \o <<NL>>,
      Fill(min_chapter_length, "p") \o <<NL, NL>>,
      Fill(100, "z") \o <<NL, NL, TAB>> \o Fill(min_chapter_length - 101, "z") \o <<NL>> }

\* What an input file ends with: nothing, or an outline header with nothing after it.
FileTails == { <<>>, <<"zuo", "pin", "da", "gang", ":">> }

\* The stem of the input file's name.
FileStem == <<"n", "o", "v", "e", "l">>

\* The text of a file made of a front, a preface, chapters and a tail.
FileText(front, preface, chs, tail) ==
    front \o preface \o Concat([k \in 1..Len(chs) |-> chs[k][1] \o chs[k][2]]) \o tail

InitStructure ==
    /\ pc = "call"
    /\ \E front \in FileFronts, preface \in FilePrefaces, tail \in FileTails,
          chs \in SeqsUpTo(FileHeaders \X FileBodies, MaxChapters) :
          text = FileText(front, preface, chs, tail)
    /\ file_stem = FileStem
    /\ meta = Idle
    /\ chinese_str = Idle /\ number = Idle
    /\ prompt = Idle /\ content = Idle /\ sample = Idle
    /\ chapters = Idle /\ samples = Idle /\ theme = Idle /\ summary = Idle
    /\ OthersIdle

NextStructure == StructureFileCall

SpecStructure == InitStructure /\ [][NextStructure]_vars

\* C4: no chapter of the chapters list _process_single_file (V3) returns,
\* be it the preface, a chapter of a header or the whole-text chapter, has
\* a content shorter than min_chapter_length.
C4_MinChapterLength ==
    (pc = "done" /\ meta # NoResult) =>
        \A i \in 1..Len(meta.chapters) :
            Len(meta.chapters[i].content) >= min_chapter_length

\* C4 witness: a preface and a chapter were kept and the span of another
\* header was dropped for being too short.
C4_Witness ==
    /\ pc = "done" /\ meta # NoResult
    /\ Len(meta.chapters) = 2
    /\ meta.chapters[1].chapter_number = 0
    /\ Len(ChapterMatches(ReadText(text))) = 2

\* C9: the title of the returned record is a string, never None: the text
\* the title rule captured, whichever of its alternatives matched, and the
\* file's stem when the rule does not match; the author is the text the
\* author rule captured or the sentinel.
C9_TitleIsString ==
    (pc = "done" /\ meta # NoResult) =>
        LET title_match == TitleSearch(ReadText(text))
            author_group == AuthorSearch(ReadText(text))
        IN  /\ meta.title # None
            /\ meta.title = IF ~title_match.matched THEN file_stem
                            ELSE IF title_match.group1 # None THEN title_match.group1
                            ELSE title_match.group2
            /\ meta.author = IF author_group # None THEN author_group ELSE UnknownAuthor

(***************************************************************************)
(* _process_content (V3 27-35) on its own                                  *)
(***************************************************************************)
\* The call of _process_content(raw_content).
ProcessContentCall ==
    /\ pc = "call"
    /\ cleaned' = ProcessContent(raw_input)
    /\ pc' = "done"
    /\ UNCHANGED <<chinese_str, number, prompt, content, sample, text, file_stem,
                   meta, chapters, samples, theme, summary, raw_input,
                   elements, templates, raised, printed, folder>>

\* The call of _process_content on what the first call returned.
ProcessContentAgain ==
    /\ pc = "done"
    /\ raw_input' = cleaned
    /\ cleaned' = ProcessContent(cleaned)
    /\ pc' = "again"
    /\ UNCHANGED <<chinese_str, number, prompt, content, sample, text, file_stem,
                   meta, chapters, samples, theme, summary,
                   elements, templates, raised, printed, folder>>

\* The most pieces a raw content is made of.
MaxContentPieces == 4

\* The pieces of the raw contents: visible characters, white space of the
\* three kinds, a line feed, a run of three line feeds, a control character.
ContentPieces ==
    { <<"a">>, <<"b">>, <<SP>>, <<IDSP>>, <<TAB>>, <<NL>>, <<NL, NL, NL>>, <<"BEL">> }

InitNormalize ==
    /\ pc = "call"
    /\ \E pieces \in SeqsUpTo(ContentPieces, MaxContentPieces) : raw_input = Concat(pieces)
    /\ cleaned = Idle
    /\ chinese_str = Idle /\ number = Idle
    /\ prompt = Idle /\ content = Idle /\ sample = Idle
    /\ text = Idle /\ file_stem = Idle /\ meta = Idle
    /\ chapters = Idle /\ samples = Idle /\ theme = Idle /\ summary = Idle
    /\ elements = Idle /\ templates = Idle /\ raised = Idle /\ printed = Idle
    /\ FolderIdle

NextNormalize == ProcessContentCall \/ ProcessContentAgain

SpecNormalize == InitNormalize /\ [][NextNormalize]_vars

\* C12: _process_content applied to its own result returns that result.
C12_Idempotent == pc = "again" => cleaned = raw_input

\* C12 witness: the second call was made on a result that holds white space
\* between its visible characters, and returned it.
C12_Witness ==
    /\ pc = "again"
    /\ raw_input = <<"a", IDSP, "b">>
    /\ cleaned = <<"a", IDSP, "b">>

\* The indices where a paragraph boundary of t starts: a run of two or more
\* line feeds (of exactly two, when exact), between two visible characters.
ParagraphBreaks(t, exact) ==
    {i \in 2..Len(t) :
        LET n == RunLength(t, i, {NL}) IN
        /\ t[i - 1] \notin Whitespace \cup ControlChars
        /\ IF exact THEN n = 2 ELSE n >= 2
        /\ i + n <= Len(t)
        /\ t[i + n] \notin Whitespace \cup ControlChars}

\* C13: every paragraph boundary of the raw content, a run of two or more
\* line feeds between two visible characters, is a boundary of exactly one
\* blank line in the result: line feeds are not removed.
C13_ParagraphsKept ==
    pc = "done" =>
        Cardinality(ParagraphBreaks(cleaned, TRUE))
            >= Cardinality(ParagraphBreaks(raw_input, FALSE))

(***************************************************************************)
(* _split_chapters (Sft 160-178, V2 118-139)                               *)
(***************************************************************************)
\* [...] of the header rule: numeral glyphs, no digits.
SplitNumerals ==
    {"ling", "yi", "er", "san", "si", "wu", "liu", "qi", "ba", "jiu",
     "shi", "bai", "qian", "wan"}

\* [-...~...] of the header rule: hyphen, em dash, full-width hyphen, tilde,
\* full-width tilde.
Dashes == {"-", "emdash", "fdash", "~", "ftilde"}

\* The longest title fragment.
max_title_length == 50

\* Where ([^\n]{1,50})(?=\n|$) ends when matched from index x of t (the
\* index after the fragment), or 0 when it does not match: the fragment is
\* the rest of the line, of one to max_title_length characters.
FragmentEnd(t, x) ==
    LET stops == {j \in x..Min(Len(t) + 1, x + max_title_length) :
                     j = Len(t) + 1 \/ t[j] = NL}
        e == MinOr(stops, 0)
    IN  IF x <= Len(t) /\ e > x THEN e ELSE 0

FragmentAt(t, x) == FragmentEnd(t, x) # 0

\* The index where the title fragment starts when the rule's tail
\* \s*[-...]?\s*(fragment) is matched from index a of t, or 0 when it does
\* not match. The white space, the dash if it stands after it, and the
\* white space after the dash each take the most they can and give back
\* only when no fragment matches otherwise: the fragment starts at the
\* farthest index they reach from which a fragment matches.
FragmentStart(t, a) ==
    LET dash == a + RunLength(t, a, Whitespace)
        farthest == IF dash <= Len(t) /\ t[dash] \in Dashes
                    THEN dash + 1 + RunLength(t, dash + 1, Whitespace)
                    ELSE dash
        reach == [k \in 1..(farthest - a + 1) |-> farthest - k + 1]
        fragments == SelectSeq(reach, LAMBDA x : FragmentAt(t, x))
    IN  IF fragments = <<>> THEN 0 ELSE fragments[1]

\* The body of the header rule matched at index h of t ("di", numerals,
\* "zhang", the tail): whether it matches, its two groups and the offset
\* where the match ends.
SplitBodyAt(t, h) ==
    LET m == RunLength(t, h + 1, SplitNumerals)
        headed == /\ h >= 1 /\ h <= Len(t) /\ t[h] = "di"
                  /\ m >= 1 /\ h + m + 1 <= Len(t) /\ t[h + m + 1] = "zhang"
        x == IF headed THEN FragmentStart(t, h + m + 2) ELSE 0
    IN  IF x = 0 THEN [matched |-> FALSE, group1 |-> <<>>, group2 |-> <<>>, end |-> 0]
        ELSE [matched |-> TRUE,
              group1 |-> SubSeq(t, h, h + m + 1),
              group2 |-> SubSeq(t, x, FragmentEnd(t, x) - 1),
              end |-> FragmentEnd(t, x) - 1]

\* The match of the header rule that starts at offset s of t, if any:
\* (?:^|\n) is the empty string at the start of a line, else a line feed.
SplitMatchAt(t, s) ==
    LET at_line_start == s = 0 \/ t[s] = NL
        first == SplitBodyAt(t, s + 1)
        second == SplitBodyAt(t, s + 2)
    IN  IF at_line_start /\ first.matched
        THEN [matched |-> TRUE, start |-> s, end |-> first.end,
              group1 |-> first.group1, group2 |-> first.group2]
        ELSE IF s + 1 <= Len(t) /\ t[s + 1] = NL /\ second.matched
        THEN [matched |-> TRUE, start |-> s, end |-> second.end,
              group1 |-> second.group1, group2 |-> second.group2]
        ELSE [matched |-> FALSE, start |-> s, end |-> s, group1 |-> <<>>, group2 |-> <<>>]

RECURSIVE SplitScan(_, _, _)
\* chapter_re.finditer(t) from offset pos on, starts being the offsets where
\* the rule matches: the leftmost match, then the scan goes on at its end.
SplitScan(t, starts, pos) ==
    LET next == {s \in starts : s >= pos} IN
    IF next = {} THEN <<>>
    ELSE LET match == SplitMatchAt(t, MinOr(next, 0)) IN
         <<match>> \o SplitScan(t, starts, match.end)

\* list(chapter_re.finditer(t)); a match starts at a "di" or at the
\* character before one.
SplitMatches(t) ==
    LET heads == Positions(t, {"di"})
        near == {h - 1 : h \in heads} \cup {h - 2 : h \in heads}
    IN  SplitScan(t, {s \in near : s >= 0 /\ SplitMatchAt(t, s).matched}, 0)

\* The text between the end of the i-th match and the start of the next
\* match (the end of the text after the last match), stripped.
SplitContent(t, matches, i) ==
    Strip(Slice(t, matches[i].end,
                IF i < Len(matches) THEN matches[i + 1].start ELSE Len(t)))

\* A mutant of SftSplitChapters: a header whose number an earlier header
\* resolved to is merged away (only the first chapter of a number is kept).
SftSplitChaptersMerging(t) ==
    LET matches == SplitMatches(t)
        kept == Indices(matches, LAMBDA i :
                    \A j \in 1..(i - 1) :
                        ChineseToNumber(matches[j].group1) # ChineseToNumber(matches[i].group1))
    IN  [k \in 1..Len(kept) |->
            <<ChineseToNumber(matches[kept[k]].group1),
              matches[kept[k]].group1 \o <<SP>> \o Strip(matches[kept[k]].group2),
              SplitContent(t, matches, kept[k])>>]

\* _split_chapters(text) of Sft: a tuple (number, title, content) a match.
SftSplitChapters(t) ==
    With(SplitMatches(t), LAMBDA matches :
        [i \in 1..Len(matches) |->
            <<ChineseToNumber(matches[i].group1),
              matches[i].group1 \o <<SP>> \o Strip(matches[i].group2),
              SplitContent(t, matches, i)>>])

RECURSIVE Digits(_)
\* The decimal digits of n > 0.
Digits(n) == IF n = 0 THEN <<>> ELSE Digits(n \div 10) \o <<<<"0", "1", "2", "3", "4", "5", "6", "7", "8", "9">>[(n % 10) + 1]>>

\* str(n) for an integer n >= 0.
Str(n) == IF n = 0 THEN <<"0">> ELSE Digits(n)

RECURSIVE InsertByNumber(_, _)
\* chs, sorted by number, with ch put after the chapters whose number is
\* not greater than its own.
InsertByNumber(chs, ch) ==
    IF chs = <<>> THEN <<ch>>
    ELSE IF chs[Len(chs)][1] <= ch[1] THEN Append(chs, ch)
    ELSE Append(InsertByNumber(SubSeq(chs, 1, Len(chs) - 1), ch), chs[Len(chs)])

RECURSIVE SortedByNumber(_)
\* sorted(chs, key=lambda x: x[0]): by number; chapters of one number keep
\* their order (the sort is stable).
SortedByNumber(chs) ==
    IF chs = <<>> THEN <<>>
    ELSE InsertByNumber(SortedByNumber(SubSeq(chs, 1, Len(chs) - 1)), chs[Len(chs)])

\* The chapters of V2's _split_chapters in the order of the matches.
V2Chapters(t) ==
    With(SplitMatches(t), LAMBDA matches :
        [i \in 1..Len(matches) |->
            LET chapter_num == ChineseToNumber(matches[i].group1) IN
            <<chapter_num,
              <<"di">> \o Str(chapter_num) \o <<"zhang", SP>> \o Strip(matches[i].group2),
              SplitContent(t, matches, i)>>])

\* _split_chapters(text) of V2
V2SplitChapters(t) == SortedByNumber(V2Chapters(t))

(***************************************************************************)
(* The per-file pipeline of Sft: _split_paragraphs,                        *)
(* _generate_outline_prompts, _generate_content_prompts and                *)
(* _process_single_file (Sft 27-42, 91-113, 202-256)                       *)
(***************************************************************************)
outline_chunk_size == 20
context_paragraphs == 2
min_content_length == 200
outline_cut == 50            \* _extract_summary(content)[:50]
context_tail == 50           \* paragraphs[p][-50:]
context_width == 200         \* textwrap.shorten(context, 200, ...)

\* _split_paragraphs(content): the runs of lines that are not blank, each
\* run's stripped lines joined by a space.
SplitParagraphs(c) ==
    With(Split(c, NL), LAMBDA raw :
    With([k \in 1..Len(raw) |-> Strip(raw[k])], LAMBDA lines :
        LET firsts == Indices(lines, LAMBDA k : lines[k] # <<>>
                                                 /\ (k = 1 \/ lines[k - 1] = <<>>))
            lasts == Indices(lines, LAMBDA k : lines[k] # <<>>
                                                /\ (k = Len(lines) \/ lines[k + 1] = <<>>))
        IN  [j \in 1..Len(firsts) |-> Join(SubSeq(lines, firsts[j], lasts[j]), <<SP>>)]))

\* title.split(' ', 1)[-1]: what follows the first space, or all of it.
AfterFirstSpace(title) ==
    LET spaces == Positions(title, {SP}) IN
    IF spaces = {} THEN title ELSE SubSeq(title, MinOr(spaces, 0) + 1, Len(title))

\* The outline line of a chapter: its number, title fragment and summary.
OutlineItem(chap) ==
    <<"di">> \o Str(chap[1]) \o <<"zhang", SP>> \o AfterFirstSpace(chap[2])
        \o <<":", SP>> \o ExtractSummary(chap[3])

\* prompt_templates['outline_request'].format(...)
OutlineRequest(genre_, theme_, start, end, count) ==
    <<"qing", "u751f", "u6210", "lfang">> \o genre_
    \o <<"rfang", "u7c7b", "u578b", "u7684", "u5c0f", "u8bf4", "uff0c", "u5c0f", "u8bf4",
         "u7684", "lfang", "u4e3b", "u9898", "da", "gang", "rfang", "u662f", "fcolon">>
    \o theme_
    \o <<"uff0c", "u9700", "u8981", "u5199", "u51fa", "di">> \o Str(start)
    \o <<"zhang", "u5230", "di">> \o Str(end)
    \o <<"zhang", "lkuo", "u5171">> \o Str(count)
    \o <<"zhang", "rkuo", "u7684", "u5c0f", "u8bf4", "zhang", "jie", "da", "gang">>

\* The outline sample of the chunk of chs that starts at offset i.
OutlineSample(theme_, chs, i) ==
    With(SubSeq(chs, i + 1, Min(i + outline_chunk_size, Len(chs))), LAMBDA chunk :
        LET outline_items == [k \in 1..Len(chunk) |-> OutlineItem(chunk[k])]
            request == OutlineRequest(genre, theme_, i + 1, i + Len(chunk), Len(chunk))
        IN  BuildDialoguePair(request, Join(outline_items, <<NL>>)))

\* A mutant of GenerateOutlinePrompts: only whole chunks get a sample (the
\* chapters after the last whole chunk get none).
GenerateOutlinePromptsWholeChunks(theme_, chs) ==
    [b \in 1..(Len(chs) \div outline_chunk_size) |->
        OutlineSample(theme_, chs, (b - 1) * outline_chunk_size)]

\* _generate_outline_prompts(meta, chapters): a sample a chunk.
GenerateOutlinePrompts(theme_, chs) ==
    [b \in 1..((Len(chs) + outline_chunk_size - 1) \div outline_chunk_size) |->
        OutlineSample(theme_, chs, (b - 1) * outline_chunk_size)]

\* prompt_templates['content_request'].format(...)
ContentRequest(chapter, outline, context) ==
    <<"qing", "u6839", "u636e", "di">> \o Str(chapter)
    \o <<"zhang", "da", "gang", "lkuo">> \o outline
    \o <<"rkuo", "uff0c", "u5e2e", "u6211", "u7eed", "u5199", "uff0c", "u524d", "wen",
         "nei", "rong", "fcolon">>
    \o context

\* The context of the paragraph at offset para_idx: the tails of the
\* context_paragraphs paragraphs before it, or the opening marker.
ParagraphContext(paragraphs, para_idx) ==
    IF para_idx > 0
    THEN LET first == Max(0, para_idx - context_paragraphs) IN
         Join([k \in 1..(para_idx - first) |->
                  LET q == first + k - 1 IN
                  <<"di">> \o Str(q) \o <<"duan", "luo", "fcolon">>
                      \o Tail_(paragraphs[q + 1], context_tail)],
              <<SP>>)
    ELSE <<"lkuo", "kai", "u5934", "rkuo">>

\* The content samples of one chapter: a sample a paragraph.
ChapterContentSamples(chap) ==
    With(SplitParagraphs(chap[3]), LAMBDA paragraphs :
    With(SliceTo(ExtractSummary(chap[3]), outline_cut), LAMBDA outline :
        [j \in 1..Len(paragraphs) |->
            BuildDialoguePair(
                ContentRequest(chap[1], outline,
                               Shorten(ParagraphContext(paragraphs, j - 1), context_width)),
                paragraphs[j])]))

\* _generate_content_prompts(meta, chapters)
GenerateContentPrompts(chs) ==
    Concat([i \in 1..Len(chs) |-> ChapterContentSamples(chs[i])])

\* The samples _process_single_file returns for a file of text t (the title
\* of meta is computed and never read).
SftProcessFile(t) ==
    With(ExtractTheme(t), LAMBDA theme_ :
    With(SftSplitChapters(t), LAMBDA chs :
        IF Len(chs) = 0 THEN <<>>
        ELSE GenerateOutlinePrompts(theme_, chs) \o GenerateContentPrompts(chs)))

\* The call of _process_single_file (Sft) on the input file.
SftProcessFileCall ==
    /\ pc = "call"
    /\ chapters' = SftSplitChapters(text)
    /\ theme' = ExtractTheme(text)
    /\ samples' = SftProcessFile(text)
    /\ pc' = "done"
    /\ UNCHANGED <<chinese_str, number, prompt, content, sample, text, file_stem,
                   meta, summary, others>>

\* The call of _split_chapters(text) of Sft.
SftSplitChaptersCall ==
    /\ pc = "call"
    /\ chapters' = SftSplitChapters(text)
    /\ pc' = "done"
    /\ UNCHANGED <<chinese_str, number, prompt, content, sample, text, file_stem,
                   meta, samples, theme, summary, others>>

\* The call of _split_chapters(text) of V2.
V2SplitChaptersCall ==
    /\ pc = "call"
    /\ chapters' = V2SplitChapters(text)
    /\ pc' = "done"
    /\ UNCHANGED <<chinese_str, number, prompt, content, sample, text, file_stem,
                   meta, samples, theme, summary, others>>

(***************************************************************************)
(* Texts for _split_chapters                                               *)
(***************************************************************************)
\* The most header lines of a text.
MaxHeaders == 3

\* Header lines: numbers 1, 2 and 12 with a title fragment after a space,
\* after a dash, and of max_title_length characters after a dash between
\* white space; a header with nothing after it; one with a fragment longer
\* than max_title_length; one with nothing but white space after it.
SplitHeaders ==
    { <<"di", "yi", "zhang", SP, "t", NL>>,
      <<"di", "er", "zhang", "-", "u", NL>>,
      <<"di", "shi", "er", "zhang", SP, "emdash", IDSP>> \o Fill(max_title_length, "x") \o <<NL>>,
      <<"di", "yi", "zhang", NL>>,
      <<"di", "er", "zhang", SP>> \o Fill(max_title_length + 1, "y") \o <<NL>>,
      <<"di", "shi", "er", "zhang", SP, SP, NL>> }

\* What follows a header line: nothing (the next header follows at once),
\* or two paragraphs, the second with the words of a header inside a line.
SplitBodies ==
    { <<>>,
      <<"a", "b", NL, NL, SP, "c", "di", "yi", "zhang", SP, "t", NL>> }

\* A header line and what follows it: every header with nothing after it,
\* the headers of number 1 with the two paragraphs as well.
SplitChapters ==
    {hb \in SplitHeaders \X SplitBodies : hb[2] = <<>> \/ hb[1][2] = "yi"}

\* What stands before the first header line.
SplitFronts == { <<>>, <<"p", NL>> }

InitSplit ==
    /\ pc = "call"
    /\ \E front \in SplitFronts, chs \in SeqsUpTo(SplitChapters, MaxHeaders),
          cut \in {0, 1} :
          LET whole == FileText(front, <<>>, chs, <<>>) IN
          text = SubSeq(whole, 1, Max(0, Len(whole) - cut))    \* with or without the last line feed
    /\ chapters = Idle
    /\ chinese_str = Idle /\ number = Idle
    /\ prompt = Idle /\ content = Idle /\ sample = Idle
    /\ file_stem = Idle /\ meta = Idle
    /\ samples = Idle /\ theme = Idle /\ summary = Idle
    /\ OthersIdle

NextSplit == SftSplitChaptersCall

SpecSplit == InitSplit /\ [][NextSplit]_vars

NextV2Split == V2SplitChaptersCall

SpecV2Split == InitSplit /\ [][NextV2Split]_vars

(***************************************************************************)
(* Chapter headers, read line by line                                      *)
(***************************************************************************)
\* Whether a chapter header starts the line at index h of t: "di", numeral
\* glyphs and "zhang" from the first character of the line on.
LineHeaderAt(t, h) ==
    /\ (h = 1 \/ t[h - 1] = NL)
    /\ t[h] = "di"
    /\ LET m == RunLength(t, h + 1, SplitNumerals) IN
       m >= 1 /\ h + m + 1 <= Len(t) /\ t[h + m + 1] = "zhang"

\* The indices of the header lines of t, in document order.
HeaderLines(t) == Indices(t, LAMBDA h : LineHeaderAt(t, h))

\* The numeral glyphs of the header at h.
HeaderNumerals(t, h) == SubSeq(t, h + 1, h + RunLength(t, h + 1, SplitNumerals))

\* What follows "zhang" on the line of the header at h.
HeaderRest(t, h) ==
    LET a == h + RunLength(t, h + 1, SplitNumerals) + 2 IN SubSeq(t, a, LineEnd(t, a) - 1)

\* The title fragment of a header: what follows the header on its line
\* after white space, one dash and white space.
TitleFragment(rest) ==
    LET i == FirstNot(rest, 1, Whitespace)
        j == IF i <= Len(rest) /\ rest[i] \in Dashes THEN i + 1 ELSE i
    IN  SubSeq(rest, FirstNot(rest, j, Whitespace), Len(rest))

\* The greatest chapter number of the standard numerals below.
MaxHeaderNumber == 20

\* The standard numerals of 1..MaxHeaderNumber.
StdNumerals == {StdForm(n) : n \in 1..MaxHeaderNumber}

\* The integer a standard numeral writes.
NumeralValue(glyphs) == CHOOSE n \in 1..MaxHeaderNumber : StdForm(n) = glyphs

\* Whether the header at h has a standard numeral and is followed by a
\* title fragment (of one to max_title_length characters).
HeaderWithTitle(t, h) ==
    /\ HeaderNumerals(t, h) \in StdNumerals
    /\ TitleFragment(HeaderRest(t, h)) # <<>>
    /\ Len(TitleFragment(HeaderRest(t, h))) <= max_title_length

\* C6: for a text whose k header lines each have a standard numeral and a
\* title fragment, _split_chapters (Sft) returns exactly k chapters in
\* document order: the i-th chapter has the value of the i-th header's
\* numeral as its number, that header and its title fragment as its title,
\* and the text between that header line and the next as its content;
\* headers of the same number stay separate chapters.
C6_ChaptersFollowHeaders ==
    LET hs == HeaderLines(text) IN
    (pc = "done" /\ \A k \in 1..Len(hs) : HeaderWithTitle(text, hs[k])) =>
        /\ Len(chapters) = Len(hs)
        /\ \A i \in 1..Len(hs) :
              /\ chapters[i][1] = NumeralValue(HeaderNumerals(text, hs[i]))
              /\ chapters[i][2] = <<"di">> \o HeaderNumerals(text, hs[i]) \o <<"zhang", SP>>
                                     \o Strip(TitleFragment(HeaderRest(text, hs[i])))
              /\ chapters[i][3] = Strip(SubSeq(text, LineEnd(text, hs[i]),
                                        (IF i < Len(hs) THEN hs[i + 1] ELSE Len(text) + 1) - 1))

\* C6 witness: three headers with title fragments, the first two of the
\* same number and the third of number 12, gave three chapters.
C6_Witness ==
    LET hs == HeaderLines(text) IN
    /\ pc = "done"
    /\ Len(hs) = 3
    /\ \A k \in 1..Len(hs) : HeaderWithTitle(text, hs[k])
    /\ Len(chapters) = 3
    /\ chapters[1][1] = chapters[2][1]
    /\ chapters[3][1] = 12

\* Whether the numbers of chs never decrease along the list.
NonDecreasing(chs) == \A i \in 1..(Len(chs) - 1) : chs[i][1] <= chs[i + 1][1]

\* C7: when the numbers of the matched headers are out of
\* sequence in document order, V2's _split_chapters returns the chapters in
\* document order.
C7_DocumentOrderKept ==
    pc = "done" =>
        LET document == V2Chapters(text) IN
        ~NonDecreasing(document) => chapters = document

(***************************************************************************)
(* Files for the per-file pipeline of Sft                                  *)
(***************************************************************************)
\* The most chapters of an input file of the pipeline.
MaxFileChapters == 2

\* The character a chapter shorter than min_content_length is filled with.
ShortFiller == "q"

\* What the file starts with: nothing, or a section header of the theme.
SftFronts == { <<>>, <<"nei", "rong", "jian", "jie4", "fcolon", "k", "k", NL, NL>> }

SftHeaders ==
    { <<"di", "yi", "zhang", SP, "t", NL>>,
      <<"di", "shi", "er", "zhang", "-", "u", NL>> }

\* Chapter contents: none; one paragraph of min_content_length - 50
\* characters; two paragraphs of sentences, min_content_length characters
\* and more together.
SftBodies ==
    { <<>>,
      Fill(min_content_length - 50, ShortFiller) \o <<NL>>,
      Fill(min_content_length \div 2, "p") \o <<JUHAO, NL, NL>>
          \o Fill(min_content_length \div 2, "r") \o <<JUHAO, NL>> }

InitSft ==
    /\ pc = "call"
    /\ \E front \in SftFronts, chs \in SeqsUpTo(SftHeaders \X SftBodies, MaxFileChapters) :
          text = FileText(front, <<>>, chs, <<>>)
    /\ chapters = Idle /\ samples = Idle /\ theme = Idle
    /\ chinese_str = Idle /\ number = Idle
    /\ prompt = Idle /\ content = Idle /\ sample = Idle
    /\ file_stem = Idle /\ meta = Idle /\ summary = Idle
    /\ OthersIdle

NextSft == SftProcessFileCall

SpecSft == InitSft /\ [][NextSft]_vars

\* C5: a chapter whose content is shorter than min_content_length is
\* dropped by the segmenter, and no sample is derived from it: every
\* chapter _split_chapters returned is at least min_content_length long, and
\* no response of a sample (outline lines, or a paragraph) holds text of a
\* short chapter.
C5_ShortChapterDropped ==
    pc = "done" =>
        /\ \A i \in 1..Len(chapters) : Len(chapters[i][3]) >= min_content_length
        /\ \A k \in 1..Len(samples) :
              \A j \in 1..Len(samples[k][2].content) :
                  samples[k][2].content[j] # ShortFiller

(***************************************************************************)
(* NovelDialogueGenerator (novel_dataset_clean.py): the templates,         *)
(* _generate_elements, _build_dialogue_pair and _process_chapter           *)
(***************************************************************************)
\* A template is a sequence of segments: literal text, or a replacement
\* field {param}.
Lit(s) == [lit |-> s, param |-> ""]
Par(p) == [lit |-> <<>>, param |-> p]

\* config['prompt_templates']
prompt_templates ==
    << <<Lit(<<"qing", "u6839", "u636e", "u4ee5", "u4e0b", "u8bbe", "u5b9a", "u751f",
             "u6210", "u5c0f", "u8bf4", "nei", "rong", "fcolon", NL, "u7c7b", "u578b",
             "fcolon">>),
         Par("genre"),
         Lit(<<NL, "da", "gang", "fcolon">>),
         Par("outline"),
         Lit(<<NL, "u5f53", "u524d", "zhang", "jie", "fcolon", "di">>),
         Par("chapter"),
         Lit(<<"zhang", SP>>),
         Par("chapter_title"),
         Lit(<<NL, "u4e3b", "u8981", "u4eba", "u7269", "fcolon">>),
         Par("characters")>>,
       <<Lit(<<"qing", "u7eed", "u5199", "u4ee5", "u4e0b", "u5c0f", "u8bf4", "nei", "rong",
             "fcolon", NL, "u7c7b", "u578b", "fcolon">>),
         Par("genre"),
         Lit(<<NL, "u5f53", "u524d", "u8fdb", "u5ea6", "fcolon">>),
         Par("chapter_title"),
         Lit(<<NL, "u4e0a", "u4e0b", "wen", "fcolon">>),
         Par("context")>>,
       <<Lit(<<"u6839", "u636e", "u4ee5", "u4e0b", "u5143", "u7d20", "u751f", "u6210",
             "zhang", "jie", "nei", "rong", "fcolon", NL, "u8f6c", "u573a", "u65b9",
             "u5f0f", "fcolon">>),
         Par("transitions"),
         Lit(<<NL, "u89d2", "u8272", "u8bbe", "u5b9a", "fcolon">>),
         Par("characters")>>,
       <<Lit(<<"qing", "u5b8c", "u5584", "u8fd9", "u4e2a", "zhang", "jie", "u7684", "u7ec6",
             "jie", "u63cf", "u5199", "fcolon", NL, "u57fa", "u672c", "u6846", "u67b6",
             "fcolon">>),
         Par("content")>> >>

\* config['element_tags']
character_tags ==
    << <<"u4e3b", "u89d2">>, <<"u914d", "u89d2">>, <<"u53cd", "u6d3e">>, <<"u5bfc", "u5e08">> >>
transition_tags ==
    << <<"san", "u5e74", "u540e">>, <<"u4e0e", "u6b64", "u540c", "u65f6">>,
       <<"u6b21", "u65e5", "u6e05", "u6668">>, <<"u8f6c", "u773c", "u95f4">> >>

\* The separator U+3001 of the element lists, and the outline put in the
\* pool when the file has none (U+6682 U+65E0 U+5927 U+7EB2).
Dun == <<"u3001">>
NoOutline == <<"u6682", "u65e0", "da", "gang">>

\* What _generate_elements may return: three characters, each a name of
\* the faker and a tag in brackets, and two different transitions. Of the
\* random outcomes the model follows those of one name, one draw of the
\* three tags and one draw of the two transitions.
FakeNames == {<<"n">>}
TagDraws == {<<1, 4, 4>>}
TransitionDraws == {<<4, 3>>}
GenerateElements ==
    { [characters |-> [k \in 1..3 |-> name \o <<"lkuo">> \o character_tags[tags[k]] \o <<"rkuo">>],
       transitions |-> <<transition_tags[pair[1]], transition_tags[pair[2]]>>] :
          name \in FakeNames, tags \in TagDraws, pair \in TransitionDraws }

\* _build_dialogue_pair(prompt, content) of NovelDialogueGenerator.
DialoguePair(prompt_, content_) ==
    [text |-> TagOpen \o prompt_ \o TagClose \o <<SP>> \o TagOpen \o content_ \o TagClose]

\* _get_template_params(template)
GetTemplateParams(template) ==
    {template[k].param : k \in {j \in 1..Len(template) : template[j].param # ""}}

\* template.format(**selected_params): Raised (a KeyError) when a field of
\* the template is no key of selected_params.
Format(template, selected_params) ==
    IF ~(GetTemplateParams(template) \subseteq DOMAIN selected_params) THEN Raised
    ELSE Concat([k \in 1..Len(template) |->
                    IF template[k].param = "" THEN template[k].lit
                    ELSE selected_params[template[k].param]])

\* The sizes _process_chapter cuts by: outline[:500], content[:300] and
\* key_sentence[:300], len(content) > 1000, randint(500, len(content)-500),
\* context[-500:], content.split("\n")[::3].
outline_keep == 500
frame_keep == 300
continuation_min == 1000
split_margin == 500
context_keep == 500
key_line_step == 3

\* A mutant of SplitPoints: the split point may be any offset from
\* split_margin to the end of the content.
SplitPointsToEnd(content_) == split_margin..Len(content_)

\* The values random.randint(500, len(content)-500) may return.
SplitPoints(content_) == split_margin..(Len(content_) - split_margin)

\* The outcomes of the random draws of one call of _process_chapter: the
\* index of the template of the first strategy, whether the second and the
\* third strategy are taken, and the split point (0 when none is drawn).
\* The second draw is made only for a content longer than continuation_min.
ChapterDraws(content_) ==
    { [template |-> tpl, continuation |-> cont, split_point |-> p, detail |-> det] :
        tpl \in 1..3, det \in BOOLEAN,
        cont \in IF Len(content_) > continuation_min THEN BOOLEAN ELSE {FALSE},
        p \in {0} \cup SplitPoints(content_) }

\* The draws that go together: a split point is drawn exactly when the
\* second strategy is taken and there is a point to draw.
DrawsOf(content_) ==
    { d \in ChapterDraws(content_) :
        (d.split_point # 0) = (d.continuation /\ SplitPoints(content_) # {}) }

\* "\n".join(content.split("\n")[::3])
KeySentence(content_) ==
    LET lines == Split(content_, NL)
        picked == [k \in 1..((Len(lines) + key_line_step - 1) \div key_line_step) |->
                      lines[key_line_step * (k - 1) + 1]]
    IN  Join(picked, <<NL>>)

\* The sample of one strategy, or none when formatting the prompt raised
\* the KeyError its handler catches; printed tells the message.
StrategySample(template, selected_params, response, message) ==
    LET prompt_ == Format(template, selected_params) IN
    IF prompt_ = Raised THEN [samples |-> <<>>, printed |-> <<message>>]
    ELSE [samples |-> <<DialoguePair(prompt_, response)>>, printed |-> <<>>]

\* _process_chapter(meta, content, elements) under the draws d and the
\* templates of the config: whether it raised, the samples it returned
\* and what it printed.
ProcessChapter(meta_, content_, elements_, templates_, d) ==
    LET params_pool ==
            [genre |-> meta_.genre,
             outline |-> IF meta_.outline # <<>> THEN SliceTo(meta_.outline, outline_keep)
                         ELSE NoOutline,
             chapter |-> Str(meta_.chapter),
             chapter_title |-> meta_.chapter_title,
             characters |-> Join(elements_.characters, Dun),
             transitions |-> Join(elements_.transitions, Dun),
             content |-> SliceTo(content_, frame_keep),
             context |-> <<>>]
        template == templates_[d.template]
        required_params == GetTemplateParams(template)
        full == StrategySample(template, [k \in required_params |-> params_pool[k]],
                               content_, "missing")
        context == SliceTo(content_, d.split_point)
        continued ==
            IF ~d.continuation THEN [samples |-> <<>>, printed |-> <<>>]
            ELSE StrategySample(templates_[2],
                                [genre |-> meta_.genre,
                                 chapter_title |-> meta_.chapter_title,
                                 context |-> Tail_(context, context_keep)],
                                SliceFrom(content_, d.split_point), "missing continuation")
        detailed ==
            IF ~d.detail THEN [samples |-> <<>>, printed |-> <<>>]
            ELSE StrategySample(templates_[4],
                                [content |-> SliceTo(KeySentence(content_), frame_keep)],
                                content_, "missing detail")
    IN  IF ~(required_params \subseteq DOMAIN params_pool)
           \/ (d.continuation /\ SplitPoints(content_) = {})
        THEN [raised |-> TRUE, samples |-> <<>>, printed |-> <<>>]
        ELSE [raised |-> FALSE,
              samples |-> full.samples \o continued.samples \o detailed.samples,
              printed |-> full.printed \o continued.printed \o detailed.printed]

\* The call of _process_chapter(meta, content, elements).
ProcessChapterCall ==
    /\ pc = "call"
    /\ \E d \in DrawsOf(content) :
          LET r == ProcessChapter(meta, content, elements, templates, d) IN
          /\ raised' = r.raised
          /\ samples' = r.samples
          /\ printed' = printed \o r.printed
    /\ pc' = "done"
    /\ UNCHANGED <<chinese_str, number, prompt, content, sample, text, file_stem,
                   meta, chapters, theme, summary, raw_input, cleaned,
                   elements, templates, folder>>

\* The templates with one more replacement field at the end of the k-th.
WithField(templates_, k, p) == [templates_ EXCEPT ![k] = Append(@, Par(p))]

\* The configs: the templates as they are, and with a field that no
\* parameter pool holds in the first, the second or the fourth template.
TemplateConfigs ==
    {prompt_templates} \cup {WithField(prompt_templates, k, "style") : k \in {1, 2, 4}}

\* The meta records of a chapter: without and with an outline.
ChapterMetas ==
    { [genre |-> genre, outline |-> outl, chapter |-> 12,
       chapter_title |-> <<"di", "shi", "er", "zhang", SP, "t">>] :
         outl \in {<<>>, <<"o", "u", "t">>} }

\* The contents of a chapter: four short lines; continuation_min characters;
\* one and two characters more, with a middle that tells the split points
\* apart.
ChapterContents ==
    { <<"a", NL, "b", NL, "c", NL, "d">>,
      Fill(split_margin, "x") \o Fill(continuation_min - split_margin, "y"),
      Fill(split_margin, "x") \o <<"m">> \o Fill(continuation_min - split_margin, "y"),
      Fill(split_margin, "x") \o <<"m", NL>> \o Fill(continuation_min - split_margin, "y") }

InitChapter ==
    /\ pc = "call"
    /\ meta \in ChapterMetas
    /\ content \in ChapterContents
    /\ elements \in GenerateElements
    /\ templates \in TemplateConfigs
    /\ raised = FALSE /\ samples = <<>> /\ printed = <<>>
    /\ chinese_str = Idle /\ number = Idle
    /\ prompt = Idle /\ sample = Idle
    /\ text = Idle /\ file_stem = Idle
    /\ chapters = Idle /\ theme = Idle /\ summary = Idle
    /\ raw_input = Idle /\ cleaned = Idle
    /\ FolderIdle

NextChapter == ProcessChapterCall

SpecChapter == InitChapter /\ [][NextChapter]_vars

\* Whether a sample answers with the whole content of the chapter.
AnswersWith(smp, content_) ==
    Tail_(smp.text, Len(content_) + Len(TagOpen) + Len(TagClose) + 1)
        = <<SP>> \o TagOpen \o content_ \o TagClose

\* The continuation sample of the split point p: the prompt of the second
\* template with the context_keep characters before p as its context,
\* answered with the characters from p on.
ContinuationAt(p) ==
    DialoguePair(
        Format(templates[2],
               [genre |-> meta.genre, chapter_title |-> meta.chapter_title,
                context |-> SubSeq(content, p - context_keep + 1, p)]),
        SubSeq(content, p + 1, Len(content)))

\* C18: every sample of a chapter answers with the whole content, except at
\* most one, which only a content longer than continuation_min has: the
\* continuation sample of a split point p, split_margin <= p <=
\* len(content) - split_margin, whose context is the context_keep
\* characters before p and whose answer is the content from p on; and with
\* the templates of the config the call does not raise.
C18_ContinuationSplit ==
    pc = "done" =>
        LET split == {k \in 1..Len(samples) : ~AnswersWith(samples[k], content)} IN
        /\ Cardinality(split) <= 1
        /\ \A k \in split :
              /\ Len(content) > continuation_min
              /\ \E p \in split_margin..(Len(content) - split_margin) :
                    samples[k] = ContinuationAt(p)
        /\ templates = prompt_templates => ~raised

\* C18 witness: a content of continuation_min + 2 characters gave the three
\* samples, the second the continuation sample of the last split point.
C18_Witness ==
    /\ pc = "done"
    /\ Len(content) = continuation_min + 2
    /\ Len(samples) = 3
    /\ samples[2] = ContinuationAt(Len(content) - split_margin)
    /\ ~AnswersWith(samples[2], content)

(***************************************************************************)
(* NovelDialogueGenerator: _process_single_file and process_folder         *)
(* (novel_dataset_clean.py 112-182)                                        *)
(***************************************************************************)
RECURSIVE DialogueSegments(_, _, _, _)
\* The list `chapters` of lines 133-143, from the i-th match on: a pair of
\* an empty title and the text before a header, a pair of the header and an
\* empty content, and at last the text after the last header.
DialogueSegments(t, matches, i, last_pos) ==
    IF i > Len(matches)
    THEN IF last_pos < Len(t) THEN << << <<>>, Slice(t, last_pos, Len(t)) >> >> ELSE <<>>
    ELSE LET match == matches[i] IN
         (IF match.start > last_pos
          THEN << << <<>>, Slice(t, last_pos, match.start) >> >> ELSE <<>>)
         \o << << Strip(match.group1), <<>> >> >>
         \o DialogueSegments(t, matches, i + 1, match.end)

RECURSIVE ChapterCalls(_, _, _, _, _)
\* The calls of _process_chapter the loop of lines 149-170 makes from the
\* i-th pair on, each by its chapter number, title and content. The title
\* of the last call is None when current_title was never bound.
ChapterCalls(segs, i, chapter_counter, current_title, current_content) ==
    LET full_content == Strip(Join(current_content, <<NL>>))
        call == IF full_content # <<>>
                THEN <<[chapter |-> chapter_counter, chapter_title |-> current_title,
                        content |-> full_content]>>
                ELSE <<>>
    IN  IF i > Len(segs) THEN (IF current_content # <<>> THEN call ELSE <<>>)
        ELSE IF segs[i][1] # <<>>
        THEN (IF chapter_counter > 0 THEN call ELSE <<>>)
             \o ChapterCalls(segs, i + 1, chapter_counter + 1, segs[i][1], <<segs[i][2]>>)
        ELSE ChapterCalls(segs, i + 1, chapter_counter, current_title,
                          Append(current_content, segs[i][2]))

\* The calls of _process_chapter for the file of this text.
DialogueCalls(file_text) ==
    With(ReadText(file_text), LAMBDA t :
        ChapterCalls(DialogueSegments(t, ChapterMatches(t), 1, 0), 1, 0, None, <<>>))

\* A mutant of FileReturn: when the pipeline raised, the samples generated
\* until then are returned.
FileReturnPartial(run) == run.samples

\* What _process_single_file returns after the run of its pipeline: the
\* samples, or the empty list of the except branch when it raised.
FileReturn(run) == IF run.raised THEN <<>> ELSE run.samples

RECURSIVE RunChapters(_, _, _, _, _, _)
\* The calls from the j-th on, each under its draws and elements, until one
\* raises: whether one raised, the samples so far, what was printed.
RunChapters(meta_, calls, templates_, draws, j, run) ==
    IF j > Len(calls) \/ run.raised THEN run
    ELSE IF calls[j].chapter_title = None
    THEN [run EXCEPT !.raised = TRUE]
    ELSE LET r == ProcessChapter(
                      [meta_ EXCEPT !.chapter = calls[j].chapter,
                                    !.chapter_title = calls[j].chapter_title],
                      calls[j].content, draws[j][2], templates_, draws[j][1])
         IN  RunChapters(meta_, calls, templates_, draws, j + 1,
                         [raised |-> r.raised,
                          samples |-> run.samples \o r.samples,
                          printed |-> run.printed \o r.printed])

\* What _process_single_file has before the loop over the chapters: whether
\* building meta raised, meta, and the calls of _process_chapter to make.
FilePlan(file_text, stem) ==
    LET t == ReadText(file_text)
        title_match == TitleSearch(t)
        author_group == AuthorSearch(t)
        outline == Outline(t)
    IN  [raised |-> outline = Raised,
         meta |-> [genre |-> genre,
                   title |-> IF title_match.matched THEN title_match.group1 ELSE stem,
                   author |-> IF author_group # None THEN author_group ELSE UnknownAuthor,
                   outline |-> outline,
                   chapter_title |-> <<>>,
                   chapter |-> 0],
         calls |-> DialogueCalls(file_text)]

\* The rest of _process_single_file under the draws of its chapters:
\* whether the except branch ran, how many samples had been generated, the
\* list returned and what was printed.
FileOutcome(plan, templates_, draws) ==
    LET run == IF plan.raised
               THEN [raised |-> TRUE, samples |-> <<>>, printed |-> <<>>]
               ELSE RunChapters(plan.meta, plan.calls, templates_, draws, 1,
                                [raised |-> FALSE, samples |-> <<>>, printed |-> <<>>])
    IN  [failed |-> run.raised,
         generated |-> Len(run.samples),
         samples |-> FileReturn(run),
         printed |-> run.printed \o (IF run.raised THEN <<"failed">> ELSE <<>>)]

\* _process_single_file(file_path) under the draws of its chapters.
ProcessSingleFile(file_text, stem, templates_, draws) ==
    FileOutcome(FilePlan(file_text, stem), templates_, draws)

\* The draws and elements of the calls of a file: one pair for each call.
FileDraws(calls) ==
    {ds \in [1..Len(calls) -> (UNION {DrawsOf(calls[j].content) : j \in 1..Len(calls)})
                               \X GenerateElements] :
        \A j \in 1..Len(calls) : ds[j][1] \in DrawsOf(calls[j].content)}

\* One iteration of the loop of process_folder:
\* all_samples.extend(self._process_single_file(file_path)).
ProcessFolderStep ==
    /\ pc = "call"
    /\ file_index < Len(txt_files)
    /\ \E plan \in {FilePlan(txt_files[file_index + 1], file_stem)} :
       \E draws \in FileDraws(plan.calls) :
       \E r \in {FileOutcome(plan, templates, draws)} :
          /\ all_samples' = all_samples \o r.samples
          /\ returned' = Append(returned, r)
          /\ printed' = printed \o r.printed
    /\ file_index' = file_index + 1
    /\ UNCHANGED <<pc, chinese_str, number, prompt, content, sample, text, file_stem,
                   meta, chapters, samples, theme, summary, raw_input, cleaned,
                   elements, templates, raised, txt_files>>

\* The end of the loop of process_folder: return all_samples.
ProcessFolderReturn ==
    /\ pc = "call"
    /\ file_index = Len(txt_files)
    /\ pc' = "done"
    /\ UNCHANGED <<chinese_str, number, prompt, content, sample, text, file_stem,
                   meta, chapters, samples, theme, summary, raw_input, cleaned,
                   elements, templates, raised, printed, folder>>

\* The most files of the input folder.
MaxFiles == 2

\* The files of the folder: one chapter; a preface and two chapters; text
\* without a header (current_title is never bound); an outline header that
\* nothing follows (building meta raises).
DialogueFiles ==
    { <<"di", "yi", "zhang", SP, "t", NL, "a", "b", NL>>,
      <<"p", NL, "di", "yi", "zhang", SP, "t", NL, "a", NL, "di", "er", "zhang", NL, "c">>,
      <<"a", "b", NL>>,
      <<"nei", "rong", "jian", "jie4", "fcolon">> }

\* The configs of the folder runs: the templates as they are, and with a
\* field that no parameter pool holds in the first template.
FolderConfigs == {prompt_templates, WithField(prompt_templates, 1, "style")}

InitFolder ==
    /\ pc = "call"
    /\ txt_files \in SeqsUpTo(DialogueFiles, MaxFiles)
    /\ templates \in FolderConfigs
    /\ file_stem = FileStem
    /\ file_index = 0 /\ returned = <<>> /\ all_samples = <<>> /\ printed = <<>>
    /\ chinese_str = Idle /\ number = Idle
    /\ prompt = Idle /\ content = Idle /\ sample = Idle
    /\ text = Idle /\ meta = Idle
    /\ chapters = Idle /\ samples = Idle /\ theme = Idle /\ summary = Idle
    /\ raw_input = Idle /\ cleaned = Idle /\ elements = Idle /\ raised = Idle

NextFolder == ProcessFolderStep \/ ProcessFolderReturn

SpecFolder == InitFolder /\ [][NextFolder]_vars

\* C14: a file whose pipeline raised, even after it had generated samples,
\* contributes the empty list, a file that completed contributes what it
\* generated, all_samples is the concatenation of the contributions in the
\* order of the files, and the folder run ends only after every file.
C14_FailedFileContributesNothing ==
    /\ \A i \in 1..Len(returned) :
          /\ returned[i].failed => returned[i].samples = <<>>
          /\ ~returned[i].failed => Len(returned[i].samples) = returned[i].generated
    /\ all_samples = Concat([i \in 1..Len(returned) |-> returned[i].samples])
    /\ Len(returned) = file_index
    /\ pc = "done" => file_index = Len(txt_files)

\* C14 witness: the first of two files raised after it had generated
\* samples, the second completed, and the folder result is what the second
\* generated.
C14_Witness ==
    /\ pc = "done"
    /\ Len(txt_files) = 2
    /\ returned[1].failed /\ returned[1].generated >= 1
    /\ ~returned[2].failed /\ returned[2].generated >= 1
    /\ all_samples = returned[2].samples

\* Whether the pipeline of a file raises for a reason other than a template
\* parameter: building meta raises, or current_title is never bound.
FailsWithoutTemplates(file_text) ==
    LET plan == FilePlan(file_text, file_stem) IN
    plan.raised \/ \E j \in 1..Len(plan.calls) : plan.calls[j].chapter_title = None

\* C15: a template that requires a parameter the pool does not hold costs
\* the one sample it was to make and nothing else: no file fails for it,
\* every file that fails would fail with any templates.
C15_MissingParameterNotFatal ==
    \A i \in 1..Len(returned) :
        returned[i].failed => FailsWithoutTemplates(txt_files[i])

(***************************************************************************)
(* The chapters of the structured output (V3) and the headers of the text  *)
(***************************************************************************)
\* The chapters of the output that come from a header: all but the preface
\* and the chapter of the whole text.
MarkerChapters(chs) ==
    {k \in 1..Len(chs) : chs[k].chapter_title # <<>> /\ chs[k].chapter_title[1] = "di"
                         /\ chs[k].chapter_title # <<"qian2", "yan">>
                         /\ chs[k].chapter_title # <<"quan", "wen">>}

\* The numeral glyphs of a header's title.
TitleNumerals(title) == SubSeq(title, 2, 1 + RunLength(title, 2, ChapterNumerals))

\* C16: the chapter_number of every chapter that comes from a header is the
\* integer its header's numeral writes, whether or not a preface was
\* emitted or an earlier chapter was dropped.
C16_NumberFromNumeral ==
    (pc = "done" /\ meta # NoResult) =>
        \A k \in MarkerChapters(meta.chapters) :
            LET numerals == TitleNumerals(meta.chapters[k].chapter_title) IN
            numerals \in StdNumerals =>
                meta.chapters[k].chapter_number = NumeralValue(numerals)

\* The spans of a text with chapter matches: the text before the first
\* match, and the text from the end of each match to the start of the next
\* (to the end of the text after the last).
MarkerSpans(t, matches) ==
    {Slice(t, 0, matches[1].start)}
    \cup {Slice(t, matches[i].end,
                IF i < Len(matches) THEN matches[i + 1].start ELSE Len(t)) :
             i \in 1..Len(matches)}

\* C17: when the text has a chapter marker, the content of every output
\* chapter is the normalized text of one span, the preface span or the span
\* of one marker: no chapter holds the text of a header or of another span.
C17_ContentFromOneSpan ==
    (pc = "done" /\ meta # NoResult) =>
        LET t == ReadText(text)
            matches == ChapterMatches(t)
        IN  matches # <<>> =>
                \A k \in 1..Len(meta.chapters) :
                    \E span \in MarkerSpans(t, matches) :
                        meta.chapters[k].content = ProcessContent(span)

(***************************************************************************)
(* _generate_outline_prompts (Sft 202-223) on its own                      *)
(***************************************************************************)
\* The call of _generate_outline_prompts(meta, chapters).
GenerateOutlinePromptsCall ==
    /\ pc = "call"
    /\ samples' = GenerateOutlinePrompts(theme, chapters)
    /\ pc' = "done"
    /\ UNCHANGED <<chinese_str, number, prompt, content, sample, text, file_stem,
                   meta, chapters, theme, summary, others>>

\* The most chapters of a list given to _generate_outline_prompts: two
\* whole chunks and one more.
MaxOutlineChapters == 41

\* How the headers of a file are numbered, as <<first, step>>: from 1 on,
\* from 5 on, every second number from 2 on, and 3 for every header.
OutlineNumberings == { <<1, 1>>, <<5, 1>>, <<2, 2>>, <<3, 0>> }

\* What follows the k-th header: a one-letter title and one short sentence;
\* a title of max_title_length characters and two sentences, the first
\* about chapter_summary_length long; a one-letter title and a sentence
\* of two lines.
OutlineShapes == {"short", "long", "lines"}

\* The tuple _split_chapters (Sft 160-178) makes of the k-th header.
OutlineChapter(numbering, shape, k) ==
    LET group1 == Wrapped(StdForm(numbering[1] + (k - 1) * numbering[2]))
        group2 == IF shape = "long" THEN Fill(max_title_length, "x") ELSE <<"t">>
        body == CASE shape = "short" -> Str(k) \o <<"a", JUHAO>>
                  [] shape = "long" -> Str(k) \o Fill(chapter_summary_length - 3, "s")
                                           \o <<JUHAO, "b", JUHAO>>
                  [] shape = "lines" -> Str(k) \o <<"a", NL, "b", JUHAO>>
    IN  <<ChineseToNumber(group1), group1 \o <<SP>> \o group2, body>>

InitOutline ==
    /\ pc = "call"
    /\ \E n \in 0..MaxOutlineChapters, numbering \in OutlineNumberings, shape \in OutlineShapes :
          chapters = [k \in 1..n |-> OutlineChapter(numbering, shape, k)]
    /\ theme \in { <<>>, <<"k", "k">> }
    /\ samples = Idle
    /\ chinese_str = Idle /\ number = Idle
    /\ prompt = Idle /\ content = Idle /\ sample = Idle
    /\ text = Idle /\ file_stem = Idle /\ meta = Idle /\ summary = Idle
    /\ OthersIdle

NextOutline == GenerateOutlinePromptsCall

SpecOutline == InitOutline /\ [][NextOutline]_vars

\* The chapters of the b-th run of outline_chunk_size consecutive chapters.
OutlineBatch(b) ==
    SubSeq(chapters, (b - 1) * outline_chunk_size + 1,
           Min(b * outline_chunk_size, Len(chapters)))

\* The outline lines of the b-th run, in the order of the chapters, joined.
OutlineLines(b) ==
    LET batch == OutlineBatch(b) IN
    Join([k \in 1..Len(batch) |-> OutlineItem(batch[k])], <<NL>>)

\* How the request of an outline of count chapters ends.
CountClause(count) ==
    <<"lkuo", "u5171">> \o Str(count)
    \o <<"zhang", "rkuo", "u7684", "u5c0f", "u8bf4", "zhang", "jie", "da", "gang">>
    \o TagClose

\* The prompt of sample b states the size of the b-th run as its count.
CountIsBatchSize(b) ==
    LET clause == CountClause(Len(OutlineBatch(b))) IN
    Tail_(samples[b][1].content, Len(clause)) = clause

\* C19: for n chapters and chunk size c, _generate_outline_prompts emits
\* ceil(n/c) samples; the response of the b-th sample is the outline lines
\* of the chapters (b-1)c+1 .. min(bc, n), one a chapter, in the order of
\* the chapters, so that every chapter has its line in exactly one sample
\* and every run but the last has c chapters; the count of the prompt is
\* the size of the run.
C19_OneLinePerChapter ==
    pc = "done" =>
        /\ Len(samples) = (Len(chapters) + outline_chunk_size - 1) \div outline_chunk_size
        /\ \A b \in 1..Len(samples) :
              /\ samples[b][2].content = TagOpen \o OutlineLines(b) \o TagClose
              /\ CountIsBatchSize(b)

\* C19, amended: as above, but the response of the b-th sample is the
\* outline lines of the run or, when prompt and lines together are longer
\* than max_sequence_length, a head of these lines followed by "...".
C19_OneLinePerChapterUnlessCut ==
    pc = "done" =>
        /\ Len(samples) = (Len(chapters) + outline_chunk_size - 1) \div outline_chunk_size
        /\ \A b \in 1..Len(samples) :
              LET lines == OutlineLines(b)
                  whole == TagOpen \o lines \o TagClose
                  response == samples[b][2].content
              IN  /\ \/ response = whole
                     \/ /\ Len(samples[b][1].content) + Len(whole) > max_sequence_length
                        /\ \E k \in 0..Len(lines) :
                              response = TagOpen \o SubSeq(lines, 1, k) \o Dots \o TagClose
                  /\ CountIsBatchSize(b)

\* More chapters than two chunks hold were given: the first response is a
\* cut run of outline_chunk_size lines, the last the whole line of the one
\* chapter left over.
C19_Witness ==
    /\ pc = "done"
    /\ Len(chapters) = 2 * outline_chunk_size + 1
    /\ Len(samples) = 3
    /\ samples[1][2].content # TagOpen \o OutlineLines(1) \o TagClose
    /\ samples[3][2].content = TagOpen \o OutlineItem(chapters[Len(chapters)]) \o TagClose

\* C20: in every outline sample whose response holds all the lines of its
\* run, the range the prompt states (start, end) is the resolved numbers of
\* the first and of the last chapter of the run, however the headers are
\* numbered.
C20_RangeIsChapterNumbers ==
    pc = "done" =>
        \A b \in 1..Len(samples) :
            LET batch == OutlineBatch(b) IN
            samples[b][2].content = TagOpen \o OutlineLines(b) \o TagClose =>
                samples[b][1].content =
                    TagOpen \o OutlineRequest(genre, theme, batch[1][1],
                                              batch[Len(batch)][1], Len(batch))
                            \o TagClose

====
